---------------------------- MODULE Spec2Model ----------------------------
(***************************************************************************)
(* Block-building core: the best-transactions iterator and its fee         *)
(* wrapper (transaction-pool/src/pool/best.rs), the pending-block builder  *)
(* (rpc-eth-api/src/helpers/pending_block.rs) and the memory-overlay state *)
(* provider (engine/tree/src/tree/memory_overlay.rs).                      *)
(***************************************************************************)
EXTENDS Integers, Sequences, FiniteSets, TLC

(***************************************************************************)
(* Bounds of the model.                                                    *)
(***************************************************************************)
\* nonces of pool transactions range over 0..MaxNonce
MaxNonce == 2
\* number of transactions the pool broadcasts on the late-arrival channel
MaxSends == 1
\* number of mark_invalid calls made by the consumer of an iterator
MaxMarks == 1
\* number of messages the late-arrival channel retains for a slow receiver
ChannelCapacity == 2
\* number of broadcasts on a channel of that capacity
MaxLateSends == 3

\* number of in-memory blocks of an overlay
MaxBlocks == 2

Senders == {1, 2}
\* variant 0 is the transaction of the snapshot, variant 1 a replacement
\* (same sender and nonce, another hash) the pool may broadcast later
Variants == {0, 1}

None == <<>>
Some(x) == <<x>>

(***************************************************************************)
(* Transactions.  A transaction is identified by (sender, nonce, variant); *)
(* its remaining attributes are read from it by the accessors below.       *)
(***************************************************************************)
\* sender 1 holds the long runs and the replacements; sender 2 competes with a
\* short run
Universe ==
    [sender : {1}, nonce : 0..MaxNonce, variant : Variants]
        \cup [sender : {2}, nonce : {0, 1}, variant : {0}]

\* TransactionId: (sender, nonce)
Id(tx) == [sender |-> tx.sender, nonce |-> tx.nonce]

\* tx.hash(): distinct transactions have distinct hashes
Hash(tx) == tx.variant * 1000 + tx.sender * 100 + tx.nonce

\* position of the transaction in its sender's fee pattern
Kind(tx) == (tx.nonce + tx.sender - 1) % 4

\* transaction.is_eip4844(): a replacement is a plain EIP-1559 transaction
IsEip4844(tx) == tx.variant = 0 /\ Kind(tx) \in {1, 2}

\* transaction.max_fee_per_gas(); a replacement bumps the fee
MaxFeePerGas(tx) ==
    IF tx.variant = 1 THEN 25 ELSE IF Kind(tx) = 3 THEN 5 ELSE 15

\* transaction.max_fee_per_blob_gas(): Some only for blob transactions
MaxFeePerBlobGas(tx) ==
    IF ~IsEip4844(tx) THEN None
    ELSE IF Kind(tx) = 1 THEN Some(25) ELSE Some(15)

\* pool_tx.gas_limit()
GasLimit(tx) == IF tx.nonce % 2 = 0 THEN 2 ELSE 3

\* pool_tx.origin.is_private()
IsPrivate(tx) == tx.sender = 1 /\ tx.nonce = 0 /\ tx.variant = 1

\* eip4844::MAX_DATA_GAS_PER_BLOCK: the blob gas of six blobs
MAX_DATA_GAS_PER_BLOCK == 786432

\* blob_tx.blob_gas(): three blobs
BlobGas(tx) == 3 * (MAX_DATA_GAS_PER_BLOCK \div 6)

VARIABLES
    best,        \* the BestTransactions struct: all, independent, invalid,
                 \* new_transaction_receiver, skip_blobs
    fees,        \* BestTransactionsWithFees: base_fee, base_fee_per_blob_gas
    predicate,   \* BestTransactionFilter: the predicate of the filter
    drained,     \* history: what try_recv gave the latest recorded next call
    ordering,    \* the pool's TransactionOrdering
    channel,     \* broadcast messages not yet received by the iterator
    mode,        \* which iterator the consumer drives: "best", "fees",
                 \* "filter", or "late" for one whose channel may lag
    yielded,     \* history: what the consumer's next calls returned, in order
    marked,      \* history: transactions passed to mark_invalid by the consumer
    markedIndependent, \* history: those that were in `independent` when marked
    last,        \* history: <<result>> of the latest next call, <<>> before it
    arrived,     \* history: a late arrival was received by the iterator
    replayed,    \* history: a received late arrival had an id already in `all`
    everSkipBlobs, \* history: skip_blobs was set at some point
    sent,        \* number of broadcasts so far
    build,       \* the locals of build_block
    overlay,     \* the MemoryOverlayStateProvider: in_memory, historical
    reply,       \* the latest read of the overlay and what it returned
    evm,         \* a system call: the Evm's env and database, and the result
    pending      \* local_pending_block: the provider, the cache behind the
                 \* mutex, the clock and the requests in flight

vars == <<best, fees, predicate, drained, ordering, channel, mode, yielded, marked,
          markedIndependent, last, arrived, replayed, everSkipBlobs, sent,
          build, overlay, reply, evm, pending>>

\* the variables an iterator call leaves alone
others == <<drained, build, overlay, reply, evm, pending>>

\* the variables of the iterator and of its consumer
iterator == <<best, fees, predicate, drained, ordering, channel, mode, yielded, marked,
              markedIndependent, last, arrived, replayed, everSkipBlobs, sent>>

(***************************************************************************)
(* Ordering of `independent` (a BTreeSet<PendingTransaction>): by priority,*)
(* ties broken in favour of the earlier submission.                        *)
(***************************************************************************)
Orderings == {"tip", "nonce"}

Priority(o, tx) ==
    CASE o = "tip" -> MaxFeePerGas(tx)
      [] o = "sender" -> tx.sender
      [] o = "nonce" -> tx.nonce

SubmissionId(tx) == Hash(tx)

\* a > b in the order of PendingTransaction
Greater(o, a, b) ==
    \/ Priority(o, a) > Priority(o, b)
    \/ Priority(o, a) = Priority(o, b) /\ SubmissionId(a) < SubmissionId(b)

\* mutant: pop_first, the least element
First(o, set) == CHOOSE a \in set : \A b \in set \ {a} : Greater(o, b, a)

\* independent.pop_last(): the greatest element
Last(o, set) == CHOOSE a \in set : \A b \in set \ {a} : Greater(o, a, b)

(***************************************************************************)
(* BestTransactions                                                        *)
(***************************************************************************)
\* mutant: mark_invalid forgets the hash
MarkInvalidForgets(b, tx) == b

\* mark_invalid: only the hash of tx enters `invalid`
MarkInvalidOp(b, tx) == [b EXCEPT !.invalid = @ \cup {Hash(tx)}]

\* id.unchecked_ancestor(): None for nonce 0
UncheckedAncestor(id) ==
    IF id.nonce = 0 THEN None ELSE Some([id EXCEPT !.nonce = @ - 1])

\* ancestor(id): the transaction with nonce - 1 in `all`
Ancestor(b, id) ==
    LET a == UncheckedAncestor(id)
    IN IF a # None /\ a[1] \in DOMAIN b.all THEN Some(b.all[a[1]]) ELSE None

\* all.insert(id, tx): a BTreeMap keyed by TransactionId
AllInsert(all, tx) ==
    [i \in (DOMAIN all) \cup {Id(tx)} |-> IF i = Id(tx) THEN tx ELSE all[i]]

\* mutant: a late arrival is independent whether or not its ancestor is known
AddOneIndependent(b, tx) ==
    [b EXCEPT !.independent = @ \cup {tx}, !.all = AllInsert(b.all, tx)]

\* one round of the while-let of add_new_transactions
AddOne(b, tx) ==
    LET ind == IF Ancestor(b, Id(tx)) = None
               THEN b.independent \cup {tx} ELSE b.independent
    IN [b EXCEPT !.independent = ind, !.all = AllInsert(b.all, tx)]

\* Err(TryRecvError::Lagged(n)): the receiver fell n messages behind, which
\* the channel has overwritten; it stands in the channel before the messages
\* still buffered
Lagged(n) == [sender |-> 0, nonce |-> n, variant |-> 0]
IsLagged(m) == m.sender = 0

\* mutant: a Lagged error ends the drain
ReceivedUntilLagged(msgs) ==
    IF \E i \in DOMAIN msgs : IsLagged(msgs[i])
    THEN SubSeq(msgs, 1, (CHOOSE i \in DOMAIN msgs : IsLagged(msgs[i])) - 1)
    ELSE msgs

\* the transactions try_recv returns, call after call, until the channel is
\* empty: on Lagged it tries again
Received(msgs) == SelectSeq(msgs, LAMBDA m : ~IsLagged(m))

RECURSIVE WhileLet(_, _)
WhileLet(b, txs) ==
    IF txs = <<>> THEN b ELSE WhileLet(AddOne(b, Head(txs)), Tail(txs))

\* mutant: the channel is read although the receiver was taken
AddNewTransactionsDetached(b, msgs) == WhileLet(b, Received(msgs))

\* add_new_transactions over what try_recv delivers; without a receiver
\* try_recv returns None at once
AddNewTransactions(b, msgs) ==
    IF ~b.new_transaction_receiver THEN b ELSE WhileLet(b, Received(msgs))

\* best.unlocks(): the id of the direct successor
Unlocks(tx) == [sender |-> tx.sender, nonce |-> tx.nonce + 1]

\* mutant: the transaction after the successor is unlocked
UnlockSecondNext(b, tx) ==
    LET id == [sender |-> tx.sender, nonce |-> tx.nonce + 2]
    IN IF id \in DOMAIN b.all
       THEN [b EXCEPT !.independent = @ \cup {b.all[id]}]
       ELSE b

\* mutant: every later transaction of the sender is unlocked
UnlockAll(b, tx) ==
    [b EXCEPT !.independent =
        @ \cup {b.all[i] : i \in {j \in DOMAIN b.all :
                    j.sender = tx.sender /\ j.nonce > tx.nonce}}]

\* "Insert transactions that just got unlocked."
Unlock(b, tx) ==
    IF Unlocks(tx) \in DOMAIN b.all
    THEN [b EXCEPT !.independent = @ \cup {b.all[Unlocks(tx)]}]
    ELSE b

\* mutant: invalid transactions are not recognised
IsInvalidNever(b, tx) == FALSE

\* "skip transactions that were marked as invalid"
IsInvalid(b, tx) == Hash(tx) \in b.invalid

\* mutant: blob transactions are never skipped
ShouldSkipNever(b, tx) == FALSE

\* self.skip_blobs && best.transaction.transaction.is_eip4844()
ShouldSkip(b, tx) == b.skip_blobs /\ IsEip4844(tx)

\* the loop of BestTransactions::next; msgs are the messages on the channel
\* when next is called (later rounds of the loop find the channel empty);
\* `from` is history: `independent` when the returned transaction was popped
RECURSIVE BestNext(_, _, _)
BestNext(o, b0, msgs) ==
    LET b == AddNewTransactions(b0, msgs)
    IN IF b.independent = {} THEN [best |-> b, item |-> None, from |-> {}]
       ELSE LET tx == Last(o, b.independent)
                b1 == [b EXCEPT !.independent = @ \ {tx}]
            IN IF IsInvalid(b1, tx) THEN BestNext(o, b1, <<>>)
               ELSE LET b2 == Unlock(b1, tx)
                    IN IF ShouldSkip(b2, tx)
                       THEN BestNext(o, MarkInvalidOp(b2, tx), <<>>)
                       ELSE [best |-> b2, item |-> Some(tx),
                             from |-> b.independent]

(***************************************************************************)
(* BestTransactionsWithFees                                                *)
(***************************************************************************)
\* mutant: the blob fee is not looked at
SatisfiesBaseFeeOnly(f, tx) == MaxFeePerGas(tx) >= f.base_fee

\* the condition under which the wrapper returns the transaction
SatisfiesFees(f, tx) ==
    /\ MaxFeePerGas(tx) >= f.base_fee
    /\ \/ MaxFeePerBlobGas(tx) = None
       \/ MaxFeePerBlobGas(tx)[1] >= f.base_fee_per_blob_gas

\* the loop of BestTransactionsWithFees::next
RECURSIVE WithFeesNext(_, _, _, _)
WithFeesNext(o, f, b0, msgs) ==
    LET r == BestNext(o, b0, msgs)
    IN IF r.item = None THEN r
       ELSE IF SatisfiesFees(f, r.item[1]) THEN r
       ELSE WithFeesNext(o, f, MarkInvalidOp(r.best, r.item[1]), <<>>)

(***************************************************************************)
(* BestTransactionFilter                                                   *)
(***************************************************************************)
\* the predicates a filter is built with
Predicates == {"first_sender", "even_nonce"}

\* (self.predicate)(&best)
Holds(p, tx) ==
    CASE p = "first_sender" -> tx.sender = 1
      [] p = "even_nonce" -> tx.nonce % 2 = 0
      [] OTHER -> TRUE

\* the loop of BestTransactionFilter::next
RECURSIVE WithFilterNext(_, _, _, _)
WithFilterNext(o, p, b0, msgs) ==
    LET r == BestNext(o, b0, msgs)
    IN IF r.item = None THEN r
       ELSE IF Holds(p, r.item[1]) THEN r
       ELSE WithFilterNext(o, p, MarkInvalidOp(r.best, r.item[1]), <<>>)

(***************************************************************************)
(* The pool snapshot an iterator is created from: per sender a gapless run *)
(* of nonces 0..k-1; `independent` holds the lowest nonce of each sender.  *)
(***************************************************************************)
SnapshotTx(s, n) == [sender |-> s, nonce |-> n, variant |-> 0]

SnapshotAll(len) ==
    [i \in {Id(tx) : tx \in {u \in Universe : u.variant = 0 /\ u.nonce < len[u.sender]}}
        |-> SnapshotTx(i.sender, i.nonce)]

SnapshotIndependent(len) == {SnapshotTx(s, 0) : s \in {x \in Senders : len[x] > 0}}

SnapshotLengths ==
    {len \in [Senders -> 0..(MaxNonce + 1)] : len[1] >= 1 /\ len[2] \in {0, 2}}

NewBest(len) ==
    [all |-> SnapshotAll(len),
     independent |-> SnapshotIndependent(len),
     invalid |-> {},
     new_transaction_receiver |-> TRUE,
     skip_blobs |-> FALSE]

\* the base fee and blob base fee of the pending block
FeeSettings == {[base_fee |-> 10, base_fee_per_blob_gas |-> 20],
                [base_fee |-> 20, base_fee_per_blob_gas |-> 15]}

\* no build is running and no overlay is read
Idle == [pc |-> "idle"]

InitIterator(m) ==
    /\ \E len \in SnapshotLengths : best = NewBest(len)
    /\ ordering \in Orderings
    /\ mode = m
    /\ fees \in IF m = "fees" THEN FeeSettings
                ELSE {[base_fee |-> 0, base_fee_per_blob_gas |-> 0]}
    /\ predicate \in IF m = "filter" THEN Predicates ELSE {"any"}
    /\ drained = <<>>
    /\ channel = <<>>
    /\ yielded = [s \in Senders |-> <<>>]
    /\ marked = {}
    /\ markedIndependent = {}
    /\ last = <<>>
    /\ arrived = FALSE
    /\ replayed = FALSE
    /\ everSkipBlobs = FALSE
    /\ sent = 0

\* the history of a sender grows by tx and by the sender's transactions that
\* the consumer had marked invalid before tx was returned
Yield(y, m, tx) ==
    [y EXCEPT ![tx.sender] =
        Append(@, [tx |-> tx, marked |-> {x \in m : x.sender = tx.sender}])]

\* the transactions the consumer holds: the one the latest next returned, and
\* those it sees in `independent`
Held ==
    (IF last = <<>> \/ last[1] = None THEN {} ELSE {last[1][1]}) \cup best.independent

\* add_new_transactions receives a transaction whose id is already a key of
\* `all`, so that all.insert replaces a value
RECURSIVE Replaces(_, _)
Replaces(b, msgs) ==
    IF msgs = <<>> THEN FALSE
    ELSE \/ Id(Head(msgs)) \in DOMAIN b.all
         \/ Replaces(AddOne(b, Head(msgs)), Tail(msgs))

Replays(b, msgs) == b.new_transaction_receiver /\ Replaces(b, Received(msgs))

\* what a next call leaves behind, r being the result of the iterator
Returned(r) ==
    /\ best' = r.best
    /\ channel' = IF best.new_transaction_receiver THEN <<>> ELSE channel
    /\ arrived' = (arrived \/ (best.new_transaction_receiver /\ channel # <<>>))
    /\ replayed' = (replayed \/ Replays(best, channel))
    /\ yielded' = IF r.item = None THEN yielded ELSE Yield(yielded, marked, r.item[1])
    /\ last' = <<r.item>>

\* the consumer calls BestTransactions::next
BestNextCall ==
    /\ mode = "best"
    /\ Returned(BestNext(ordering, best, channel))
    /\ UNCHANGED <<fees, predicate, ordering, mode, marked, markedIndependent,
                   everSkipBlobs, sent, others>>

\* the consumer calls BestTransactionsWithFees::next
FeesNextCall ==
    /\ mode = "fees"
    /\ Returned(WithFeesNext(ordering, fees, best, channel))
    /\ UNCHANGED <<fees, predicate, ordering, mode, marked, markedIndependent,
                   everSkipBlobs, sent, others>>

\* the consumer calls BestTransactionFilter::next
FilterNextCall ==
    /\ mode = "filter"
    /\ Returned(WithFilterNext(ordering, predicate, best, channel))
    /\ UNCHANGED <<fees, predicate, ordering, mode, marked, markedIndependent,
                   everSkipBlobs, sent, others>>

\* the consumer calls mark_invalid(tx) with a transaction it holds
MarkInvalid(tx) ==
    /\ Cardinality(marked) < MaxMarks
    /\ tx \notin marked
    /\ best' = MarkInvalidOp(best, tx)
    /\ marked' = marked \cup {tx}
    /\ markedIndependent' = IF tx \in best.independent
                            THEN markedIndependent \cup {tx} ELSE markedIndependent
    /\ UNCHANGED <<fees, predicate, ordering, channel, mode, yielded, last, arrived, replayed,
                   everSkipBlobs, sent, others>>

\* the consumer calls set_skip_blobs(flag)
SetSkipBlobs(flag) ==
    /\ best.skip_blobs # flag
    /\ best' = [best EXCEPT !.skip_blobs = flag]
    /\ everSkipBlobs' = (everSkipBlobs \/ flag)
    /\ UNCHANGED <<fees, predicate, ordering, channel, mode, yielded, marked,
                   markedIndependent, last, arrived, replayed, sent, others>>

\* the consumer calls no_updates()
NoUpdates ==
    /\ best.new_transaction_receiver
    /\ best' = [best EXCEPT !.new_transaction_receiver = FALSE]
    /\ UNCHANGED <<fees, predicate, ordering, channel, mode, yielded, marked,
                   markedIndependent, last, arrived, replayed, everSkipBlobs, sent, others>>

\* what the pool broadcasts while the iterator lives: the first transaction of
\* sender 1 again, a replacement of it, a replacement of the third transaction
\* of sender 1 and the first transaction of sender 2
Arrivals ==
    {[sender |-> 1, nonce |-> 0, variant |-> 0],
     [sender |-> 1, nonce |-> 0, variant |-> 1],
     [sender |-> 1, nonce |-> 2, variant |-> 1],
     [sender |-> 2, nonce |-> 0, variant |-> 0]}

\* the pool broadcasts a new pending transaction, one without a nonce gap; the
\* channel is wide enough for MaxSends messages, so the receiver never lags
Send(tx) ==
    /\ sent < MaxSends
    /\ IF tx.nonce = 0 THEN TRUE ELSE Ancestor(best, Id(tx)) # None
    /\ sent' = sent + 1
    /\ channel' = Append(channel, tx)
    /\ UNCHANGED <<best, fees, predicate, ordering, mode, yielded, marked,
                   markedIndependent, last, arrived, replayed, everSkipBlobs, others>>

\* the pool broadcasts on a channel that retains ChannelCapacity messages:
\* when the receiver is that far behind, the oldest message is overwritten
\* and the receiver's next try_recv returns Lagged
SendLate(tx) ==
    /\ sent < MaxLateSends
    /\ IF tx.nonce = 0 THEN TRUE ELSE Ancestor(best, Id(tx)) # None
    /\ sent' = sent + 1
    /\ LET buffered == Received(channel)
           skipped == IF channel # <<>> /\ IsLagged(Head(channel))
                      THEN Head(channel).nonce ELSE 0
       IN channel' = IF Len(buffered) < ChannelCapacity THEN Append(channel, tx)
                     ELSE <<Lagged(skipped + 1)>> \o Tail(buffered) \o <<tx>>
    /\ UNCHANGED <<best, fees, predicate, ordering, mode, yielded, marked,
                   markedIndependent, last, arrived, replayed, everSkipBlobs, others>>

\* the consumer calls BestTransactions::next on an iterator whose channel may
\* have lagged
LateNextCall ==
    /\ mode = "late"
    /\ Returned(BestNext(ordering, best, channel))
    /\ drained' = IF best.new_transaction_receiver THEN channel ELSE <<>>
    /\ UNCHANGED <<fees, predicate, ordering, mode, marked, markedIndependent,
                   everSkipBlobs, sent, build, overlay, reply, evm, pending>>

\* the calls that both iterators take
Calls ==
    \/ \E tx \in Held : MarkInvalid(tx)
    \/ \E flag \in BOOLEAN : SetSkipBlobs(flag)
    \/ NoUpdates
    \/ \E tx \in Arrivals : Send(tx)

InitBest ==
    /\ InitIterator("best")
    /\ build = Idle /\ overlay = Idle /\ reply = Idle /\ evm = Idle /\ pending = Idle
NextBest == BestNextCall \/ Calls
\* a consumer driving a bare BestTransactions
SpecBest == InitBest /\ [][NextBest]_vars

InitFees ==
    /\ InitIterator("fees")
    /\ build = Idle /\ overlay = Idle /\ reply = Idle /\ evm = Idle /\ pending = Idle
NextFees == FeesNextCall \/ Calls

\* the pools a lagging iterator starts from
LateSnapshotLengths == {len \in SnapshotLengths : len[1] <= 2 /\ len[2] <= 1}

InitLate ==
    /\ InitIterator("late")
    /\ \E len \in LateSnapshotLengths : best = NewBest(len)
    /\ build = Idle /\ overlay = Idle /\ reply = Idle /\ evm = Idle /\ pending = Idle
NextLate ==
    \/ LateNextCall
    \/ \E tx \in Arrivals : SendLate(tx)
    \/ \E flag \in BOOLEAN : SetSkipBlobs(flag)
\* a consumer of BestTransactions that is slow enough for the channel to lag
SpecLate == InitLate /\ [][NextLate]_vars

InitIterators ==
    /\ \E m \in {"best", "fees", "filter"} : InitIterator(m)
    /\ build = Idle /\ overlay = Idle /\ reply = Idle /\ evm = Idle /\ pending = Idle
NextIterators ==
    \/ BestNextCall \/ FeesNextCall \/ FilterNextCall
    \/ \E flag \in BOOLEAN : SetSkipBlobs(flag)
    \/ \E tx \in Arrivals : Send(tx)
\* a consumer that drives a BestTransactions, bare or behind one of its
\* wrappers, and switches skip_blobs while the pool broadcasts
SpecIterators == InitIterators /\ [][NextIterators]_vars
\* a consumer driving a BestTransactionsWithFees
SpecFees == InitFees /\ [][NextFees]_vars

(***************************************************************************)
(* build_block: the selection loop and the sealed header                   *)
(***************************************************************************)
\* tx.tx_type()
TxType(tx) == IF IsEip4844(tx) THEN "eip4844" ELSE "eip1559"

\* what evm.transact() returns for tx on the state db (the sender nonces):
\* the EVM rejects a nonce below the state nonce with NonceTooLow and one
\* above it with another InvalidTransaction; otherwise the transaction runs
\* and uses at most its gas limit, or is rejected for another reason, or the
\* database fails
EvmOutcomes(db, tx) ==
    IF tx.nonce < db[tx.sender]
    THEN {[kind |-> "nonce_too_low", gas_used |-> 0, success |-> FALSE]}
    ELSE IF tx.nonce > db[tx.sender]
    THEN {[kind |-> "invalid_transaction", gas_used |-> 0, success |-> FALSE]}
    ELSE {[kind |-> "ok", gas_used |-> 1, success |-> TRUE],
          [kind |-> "ok", gas_used |-> GasLimit(tx), success |-> FALSE],
          [kind |-> "invalid_transaction", gas_used |-> 0, success |-> FALSE],
          [kind |-> "fatal", gas_used |-> 0, success |-> FALSE]}

\* mutant: the gas limit of the transaction is left out of the capacity check
FitsGasUsedOnly(bld, tx) == ~(bld.cumulative_gas_used > bld.block_gas_limit)

\* "ensure we still have capacity for this transaction"
FitsGasLimit(bld, tx) ==
    ~(bld.cumulative_gas_used + GasLimit(tx) > bld.block_gas_limit)

\* "check if the EIP-4844 can still fit in the block"
FitsBlobGas(bld, tx) ==
    ~(IsEip4844(tx) /\ bld.sum_blob_gas_used + BlobGas(tx) > MAX_DATA_GAS_PER_BLOCK)

\* mutant: a NonceTooLow error does not leave the loop round
IsOtherTransactionError(outcome) == outcome.kind = "invalid_transaction"

\* Err(EVMError::Transaction(_)): the transaction is skipped
IsTransactionError(outcome) ==
    outcome.kind \in {"nonce_too_low", "invalid_transaction"}

\* mutant: the state diff is dropped
CommitForgotten(db, tx) == db

\* db.commit(state): the diff of an executed transaction bumps the sender nonce
Commit(db, tx) == [db EXCEPT ![tx.sender] = @ + 1]

\* assemble_receipt
AssembleReceipt(tx, outcome, cumulative_gas_used) ==
    [tx_type |-> TxType(tx),
     success |-> outcome.success,
     cumulative_gas_used |-> cumulative_gas_used]

\* mutant: the receipt is assembled before the gas of the transaction is added
ExecutedReceiptFirst(bld, tx, outcome) ==
    [bld EXCEPT
        !.db = Commit(@, tx),
        !.sum_blob_gas_used = IF IsEip4844(tx) THEN @ + BlobGas(tx) ELSE @,
        !.cumulative_gas_used = @ + outcome.gas_used,
        !.receipts = Append(@, AssembleReceipt(tx, outcome, bld.cumulative_gas_used)),
        !.executed_txs = Append(@, tx),
        !.senders = Append(@, tx.sender),
        !.gas_trace = Append(@, outcome.gas_used),
        !.exec_nonces = Append(@, bld.db[tx.sender])]

\* the tail of a loop round, from db.commit(state) to senders.push(sender)
Executed(bld, tx, outcome) ==
    [bld EXCEPT
        !.db = Commit(@, tx),
        !.sum_blob_gas_used = IF IsEip4844(tx) THEN @ + BlobGas(tx) ELSE @,
        !.cumulative_gas_used = @ + outcome.gas_used,
        !.receipts = Append(@, AssembleReceipt(tx, outcome,
                                   bld.cumulative_gas_used + outcome.gas_used)),
        !.executed_txs = Append(@, tx),
        !.senders = Append(@, tx.sender),
        !.gas_trace = Append(@, outcome.gas_used),
        !.exec_nonces = Append(@, bld.db[tx.sender])]

\* mutant: the origin of the transaction is not looked at
RejectedPublic(bld, tx) ==
    IF ~FitsGasLimit(bld, tx) THEN "gas_limit"
    ELSE IF ~FitsBlobGas(bld, tx) THEN "blob_gas"
    ELSE "execute"

\* the checks of a loop round before the transaction is executed, in order:
\* the gas limit, the private origin, the blob gas
Rejected(bld, tx) ==
    IF ~FitsGasLimit(bld, tx) THEN "gas_limit"
    ELSE IF IsPrivate(tx) THEN "private"
    ELSE IF ~FitsBlobGas(bld, tx) THEN "blob_gas"
    ELSE "execute"

\* a pulled transaction is left out of the block
Skip(bld, tx, why) == [bld EXCEPT !.skipped = @ \cup {[tx |-> tx, why |-> why]}]

\* "if we've reached the max data gas per block, we can skip blob txs entirely"
SkipBlobsWhenFull(b, bld, tx) ==
    IF IsEip4844(tx) /\ bld.sum_blob_gas_used = MAX_DATA_GAS_PER_BLOCK
    THEN [b EXCEPT !.skip_blobs = TRUE] ELSE b

\* the header and the body of the sealed block
Seal(bld) ==
    [bld EXCEPT
        !.pc = "sealed",
        !.header = Some([gas_used |-> bld.cumulative_gas_used,
                         gas_limit |-> bld.block_gas_limit,
                         parent_beacon_block_root |-> bld.parent_beacon_block_root]),
        !.body = Some(bld.executed_txs)]

\* mutant: a rejected transaction ends the build like a database error
AfterTransactAborts(bld, b, tx, outcome) ==
    IF outcome.kind = "fatal"
    THEN [build |-> [Skip(bld, tx, "fatal") EXCEPT !.pc = "failed"], best |-> b]
    ELSE IF IsTransactionError(outcome)
    THEN [build |-> [Skip(bld, tx, outcome.kind) EXCEPT !.pc = "failed"],
          best |-> IF outcome.kind = "nonce_too_low" THEN b ELSE MarkInvalidOp(b, tx)]
    ELSE LET done == Executed(bld, tx, outcome)
         IN [build |-> done, best |-> SkipBlobsWhenFull(b, done, tx)]

\* mutant: a transaction with too low a nonce is marked invalid as well
AfterTransactMarksAll(bld, b, tx, outcome) ==
    IF outcome.kind = "fatal"
    THEN [build |-> [Skip(bld, tx, "fatal") EXCEPT !.pc = "failed"], best |-> b]
    ELSE IF IsTransactionError(outcome)
    THEN [build |-> Skip(bld, tx, outcome.kind), best |-> MarkInvalidOp(b, tx)]
    ELSE LET done == Executed(bld, tx, outcome)
         IN [build |-> done, best |-> SkipBlobsWhenFull(b, done, tx)]

\* one round of the while-let over the result of evm.transact()
AfterTransact(bld, b, tx, outcome) ==
    IF outcome.kind = "fatal"
    THEN [build |-> [Skip(bld, tx, "fatal") EXCEPT !.pc = "failed"], best |-> b]
    ELSE IF IsTransactionError(outcome)
    THEN [build |-> Skip(bld, tx, outcome.kind),
          best |-> IF outcome.kind = "nonce_too_low" THEN b ELSE MarkInvalidOp(b, tx)]
    ELSE LET done == Executed(bld, tx, outcome)
         IN [build |-> done, best |-> SkipBlobsWhenFull(b, done, tx)]

\* mutant: the blockhashes update comes before the beacon-root call
PreBlockStepsSwapped == <<"blockhashes_update", "beacon_root_contract_call">>

\* the statements of build_block between the creation of the iterator and the
\* selection loop, in the order of the code
PreBlockSteps == <<"beacon_root_contract_call", "blockhashes_update">>

\* the locals of build_block when the selection loop is entered
NewBuild(limit) ==
    [pc |-> "loop",
     block_gas_limit |-> limit,
     cumulative_gas_used |-> 0,
     sum_blob_gas_used |-> 0,
     executed_txs |-> <<>>,
     senders |-> <<>>,
     receipts |-> <<>>,
     db |-> [s \in Senders |-> 0],
     header |-> None,
     body |-> None,
     gas_trace |-> <<>>,     \* history: result.gas_used() of each executed tx
     exec_nonces |-> <<>>,   \* history: the sender's state nonce at execution
     skipped |-> {},         \* history: pulled transactions left out, and why
     origin |-> [kind |-> "DerivedFromLatest", parent_beacon_block_root |-> <<>>],
     cancun_active |-> FALSE,
     block_number |-> 1,
     parent_beacon_block_root |-> <<>>,
     error |-> <<>>,
     step |-> Len(PreBlockSteps) + 1,  \* the pre-block statement to run next
     pre_block |-> <<>>]     \* history: the pre-block steps made, in order

BlockGasLimits == {5, 7}

\* one round of the selection loop: best_txs.next(), then the checks, the
\* execution and the bookkeeping; when the iterator is drained the block is
\* sealed
BuildBlockLoop ==
    /\ build.pc = "loop"
    /\ LET r == WithFeesNext(ordering, fees, best, channel)
       IN /\ channel' = IF best.new_transaction_receiver THEN <<>> ELSE channel
          /\ IF r.item = None
             THEN /\ build' = Seal(build)
                  /\ best' = r.best
             ELSE LET tx == r.item[1]
                  IN IF Rejected(build, tx) # "execute"
                     THEN /\ best' = MarkInvalidOp(r.best, tx)
                          /\ build' = Skip(build, tx, Rejected(build, tx))
                     ELSE \E outcome \in EvmOutcomes(build.db, tx) :
                            LET a == AfterTransact(build, r.best, tx, outcome)
                            IN build' = a.build /\ best' = a.best
    /\ UNCHANGED <<fees, predicate, drained, ordering, mode, yielded, marked,
                   markedIndependent, last, arrived, replayed, everSkipBlobs, sent,
                   overlay, reply, evm, pending>>

InitBuild ==
    /\ InitIterator("fees")
    /\ \E limit \in BlockGasLimits : build = NewBuild(limit)
    /\ overlay = Idle
    /\ reply = Idle
    /\ evm = Idle
    /\ pending = Idle

NextBuild == BuildBlockLoop \/ \E tx \in Arrivals : Send(tx)
\* build_block pulling from the pool while the pool broadcasts late arrivals
SpecBuild == InitBuild /\ [][NextBuild]_vars

(***************************************************************************)
(* MemoryOverlayStateProvider                                              *)
(***************************************************************************)
Numbers == 1..3
Addresses == {"a", "b"}
StorageKeys == Addresses \X {0}
CodeHashes == {"h", "g"}

\* ProviderResult: Ok(value) or an error of the provider
Ok(v) == [err |-> FALSE, val |-> v]
Err == [err |-> TRUE, val |-> None]

\* block.block.hash()
BlockHashOf(block) == 200 + 10 * block.number + block.salt

\* the historical provider: it knows the canonical hashes up to its tip
HistBlockHash(h, number) ==
    IF h.err THEN Err
    ELSE IF number <= h.tip THEN Ok(Some(100 + number)) ELSE Ok(None)

RECURSIVE HistHashes(_, _, _)
HistHashes(h, start, end) ==
    IF start >= end \/ start > h.tip THEN <<>>
    ELSE <<100 + start>> \o HistHashes(h, start + 1, end)

HistCanonicalHashesRange(h, start, end) ==
    IF h.err THEN Err ELSE Ok(HistHashes(h, start, end))

\* mutant: the blocks are scanned oldest first
RECURSIVE FirstFromStart(_, _)
FirstFromStart(found, i) ==
    IF i = 0 THEN None
    ELSE LET earlier == FirstFromStart(found, i - 1)
         IN IF earlier # None THEN earlier
            ELSE IF found[i] # None THEN found[i] ELSE None

\* for block in self.in_memory.iter().rev(): the first block, from position i
\* down, whose lookup (found[i]) is Some
RECURSIVE FirstFromEnd(_, _)
FirstFromEnd(found, i) ==
    IF i = 0 THEN None
    ELSE IF found[i] # None THEN found[i]
    ELSE FirstFromEnd(found, i - 1)

\* a read of the overlay: the hit in memory, else what the historical
\* provider returns; `historical` tells whether it was asked
Read(hit, fallback) ==
    IF hit # None THEN [result |-> Ok(hit[1]), historical |-> FALSE]
    ELSE [result |-> fallback, historical |-> TRUE]

block_hash(ov, number) ==
    LET found == [i \in DOMAIN ov.in_memory |->
                    IF ov.in_memory[i].number = number
                    THEN Some(Some(BlockHashOf(ov.in_memory[i]))) ELSE None]
    IN Read(FirstFromEnd(found, Len(found)), HistBlockHash(ov.historical, number))

basic_account(ov, address) ==
    LET found == [i \in DOMAIN ov.in_memory |-> ov.in_memory[i].account[address]]
    IN Read(FirstFromEnd(found, Len(found)), ov.historical.basic_account[address])

storage(ov, key) ==
    LET found == [i \in DOMAIN ov.in_memory |->
                    IF ov.in_memory[i].storage[key] # None
                    THEN Some(ov.in_memory[i].storage[key]) ELSE None]
    IN Read(FirstFromEnd(found, Len(found)), ov.historical.storage[key])

bytecode_by_hash(ov, code_hash) ==
    LET found == [i \in DOMAIN ov.in_memory |->
                    IF ov.in_memory[i].bytecode[code_hash] # None
                    THEN Some(ov.in_memory[i].bytecode[code_hash]) ELSE None]
    IN Read(FirstFromEnd(found, Len(found)), ov.historical.bytecode[code_hash])

\* mutant: the hashes are pushed at the end as the blocks are met
RECURSIVE RangeScanPush(_, _, _, _, _)
RangeScanPush(in_memory, i, start, end, acc) ==
    IF i = 0 THEN acc
    ELSE IF start <= in_memory[i].number /\ in_memory[i].number < end
    THEN RangeScanPush(in_memory, i - 1, start, end,
             [hashes |-> Append(acc.hashes, BlockHashOf(in_memory[i])),
              earliest_block_number |-> Some(in_memory[i].number)])
    ELSE RangeScanPush(in_memory, i - 1, start, end, acc)

\* the loop of canonical_hashes_range, newest block first, from position i down
RECURSIVE RangeScan(_, _, _, _, _)
RangeScan(in_memory, i, start, end, acc) ==
    IF i = 0 THEN acc
    ELSE IF start <= in_memory[i].number /\ in_memory[i].number < end
    THEN RangeScan(in_memory, i - 1, start, end,
             [hashes |-> <<BlockHashOf(in_memory[i])>> \o acc.hashes,
              earliest_block_number |-> Some(in_memory[i].number)])
    ELSE RangeScan(in_memory, i - 1, start, end, acc)

\* mutant: an error of the historical provider is dropped when blocks in
\* memory matched the range
RangeKeepsInMemoryOnError(ov, start, end) ==
    LET acc == RangeScan(ov.in_memory, Len(ov.in_memory), start, end,
                         [hashes |-> <<>>, earliest_block_number |-> None])
        upto == IF acc.earliest_block_number = None THEN end
                ELSE acc.earliest_block_number[1]
        hist == HistCanonicalHashesRange(ov.historical, start, upto)
    IN [result |-> IF hist.err /\ acc.hashes = <<>> THEN hist
                   ELSE Ok((IF hist.err THEN <<>> ELSE hist.val) \o acc.hashes),
        historical |-> TRUE]

canonical_hashes_range(ov, start, end) ==
    LET acc == RangeScan(ov.in_memory, Len(ov.in_memory), start, end,
                         [hashes |-> <<>>, earliest_block_number |-> None])
        upto == IF acc.earliest_block_number = None THEN end
                ELSE acc.earliest_block_number[1]
        hist == HistCanonicalHashesRange(ov.historical, start, upto)
    IN [result |-> IF hist.err THEN hist ELSE Ok(hist.val \o acc.hashes),
        historical |-> TRUE]

\* the overlays that are read: one kind of key is populated at a time
NoAccounts == [a \in Addresses |-> None]
NoStorage == [k \in StorageKeys |-> None]
NoBytecode == [c \in CodeHashes |-> None]

\* account(&address) of a bundle: no change, a deletion, or a snapshot
AccountChanges == {None, Some(None), Some(Some(1)), Some(Some(2))}
ValueChanges == {None, Some(1), Some(2)}

ExecutedBlocks(focus) ==
    CASE focus = "block" ->
            {[number |-> n, salt |-> x, account |-> NoAccounts,
              storage |-> NoStorage, bytecode |-> NoBytecode] :
                n \in Numbers, x \in {0, 1}}
      [] focus = "account" ->
            {[number |-> 1, salt |-> 0, account |-> f,
              storage |-> NoStorage, bytecode |-> NoBytecode] :
                f \in [Addresses -> AccountChanges]}
      [] focus = "storage" ->
            {[number |-> 1, salt |-> 0, account |-> NoAccounts,
              storage |-> f, bytecode |-> NoBytecode] :
                f \in [StorageKeys -> ValueChanges]}
      [] focus = "bytecode" ->
            {[number |-> 1, salt |-> 0, account |-> NoAccounts,
              storage |-> NoStorage, bytecode |-> f] :
                f \in [CodeHashes -> ValueChanges]}

\* what the historical provider answers for one key
HistAnswers == {Ok(None), Ok(Some(9)), Err}

Historicals(focus) ==
    [tip : IF focus = "block" THEN 0..3 ELSE {0},
     err : IF focus = "block" THEN BOOLEAN ELSE {FALSE},
     basic_account : IF focus = "account" THEN [Addresses -> HistAnswers]
                     ELSE {[a \in Addresses |-> Ok(None)]},
     storage : IF focus = "storage" THEN [StorageKeys -> HistAnswers]
               ELSE {[k \in StorageKeys |-> Ok(None)]},
     bytecode : IF focus = "bytecode" THEN [CodeHashes -> HistAnswers]
                ELSE {[c \in CodeHashes |-> Ok(None)]}]

\* MemoryOverlayStateProvider::new(in_memory, historical)
InitOverlay ==
    /\ \E focus \in {"block", "account", "storage", "bytecode"} :
          \E n \in 0..MaxBlocks :
             \E in_memory \in [1..n -> ExecutedBlocks(focus)] :
                \E historical \in Historicals(focus) :
                   overlay = [pc |-> "ready", focus |-> focus,
                              in_memory |-> in_memory, historical |-> historical]
    /\ reply = Idle
    /\ build = Idle
    /\ evm = Idle
    /\ pending = Idle
    /\ best = Idle /\ fees = Idle /\ predicate = "any" /\ drained = <<>> /\ ordering = "tip" /\ mode = "overlay"
    /\ channel = <<>> /\ yielded = <<>> /\ marked = {} /\ markedIndependent = {}
    /\ last = <<>> /\ arrived = FALSE /\ replayed = FALSE /\ everSkipBlobs = FALSE /\ sent = 0

\* a read leaves the provider as it is and answers the caller
Answer(op, key, r) ==
    /\ reply' = [pc |-> "done", op |-> op, key |-> key,
                 result |-> r.result, historical |-> r.historical]
    /\ UNCHANGED <<best, fees, predicate, drained, ordering, channel, mode,
                   yielded, marked, markedIndependent, last, arrived, replayed,
                   everSkipBlobs, sent, build, overlay, evm, pending>>

BlockHash(number) ==
    /\ overlay.focus = "block"
    /\ Answer("block_hash", number, block_hash(overlay, number))

CanonicalHashesRange(start, end) ==
    /\ overlay.focus = "block"
    /\ Answer("canonical_hashes_range", <<start, end>>,
              canonical_hashes_range(overlay, start, end))

BasicAccount(address) ==
    /\ overlay.focus = "account"
    /\ Answer("basic_account", address, basic_account(overlay, address))

Storage(key) ==
    /\ overlay.focus = "storage"
    /\ Answer("storage", key, storage(overlay, key))

BytecodeByHash(code_hash) ==
    /\ overlay.focus = "bytecode"
    /\ Answer("bytecode_by_hash", code_hash, bytecode_by_hash(overlay, code_hash))

NextOverlay ==
    \/ \E number \in Numbers : BlockHash(number)
    \/ \E start \in 1..4, end \in 1..4 : CanonicalHashesRange(start, end)
    \/ \E address \in Addresses : BasicAccount(address)
    \/ \E key \in StorageKeys : Storage(key)
    \/ \E code_hash \in CodeHashes : BytecodeByHash(code_hash)

\* reads of a MemoryOverlayStateProvider
SpecOverlay == InitOverlay /\ [][NextOverlay]_vars

(***************************************************************************)
(* System calls: the EIP-4788 beacon-root call before the block and the    *)
(* EIP-7002 withdrawal-requests call after it, on one Evm                  *)
(***************************************************************************)
\* the most whole requests an output of the withdrawal contract holds
MaxRequests == 2

SYSTEM_ADDRESS == "system"
BEACON_ROOTS_ADDRESS == "beacon_roots"
WITHDRAWAL_REQUEST_PREDEPLOY_ADDRESS == "withdrawal_requests"
\* the accounts a system call can touch besides the system address
Accounts == {"miner", "alice"}
EvmAddresses ==
    {SYSTEM_ADDRESS, BEACON_ROOTS_ADDRESS, WITHDRAWAL_REQUEST_PREDEPLOY_ADDRESS}
        \cup Accounts

\* B256::ZERO
ZeroRoot == 0
\* the parent beacon block roots a caller passes
Roots == {None, Some(ZeroRoot), Some(7)}

WITHDRAWAL_REQUEST_SIZE == 76

\* the result of a system call
CallOk(v) == [ok |-> TRUE, value |-> v, error |-> "", root |-> None, message |-> ""]
\* mutant: the error leaves the root out
CallErrWithoutRoot(e, root, m) ==
    [ok |-> FALSE, value |-> <<>>, error |-> e, root |-> None, message |-> m]

CallErr(e, root, m) ==
    [ok |-> FALSE, value |-> <<>>, error |-> e, root |-> root, message |-> m]

\* EvmConfig::fill_tx_env_system_contract_call: the transaction env becomes
\* the call of contract by caller with data
fill_tx_env_system_contract_call(env, caller, contract, data) ==
    [env EXCEPT !.tx = [caller |-> caller, transact_to |-> contract, data |-> data]]

\* state.remove(key)
Remove(state, key) == [a \in (DOMAIN state) \ {key} |-> state[a]]

\* mutant: the coinbase entry stays in the diff
CleanupSystemOnly(state, coinbase) == Remove(state, SYSTEM_ADDRESS)

\* "cleanup the state": the system address and the coinbase leave the diff
Cleanup(state, coinbase) == Remove(Remove(state, SYSTEM_ADDRESS), coinbase)

\* db.commit(state): the accounts of the diff replace those of the database
DbCommit(db, state) ==
    [a \in DOMAIN db |-> IF a \in DOMAIN state THEN state[a] ELSE db[a]]

\* the Evm after evm.transact() ran the transaction of its env
Transacted(e, outcome) ==
    [e EXCEPT !.transacts = Append(@, e.env.tx),
              !.returned = IF outcome.kind = "ok" THEN Append(@, outcome.state) ELSE @]

\* the Evm after evm.context.evm.db.commit(state)
Committed(e, state) ==
    [e EXCEPT !.db = DbCommit(@, state), !.commits = Append(@, state)]

\* mutant: the env of the system call stays in the Evm
RestoreEnvForgotten(e, previous_env) == e

\* "re-set the previous env": evm.context.evm.env = previous_env
RestoreEnv(e, previous_env) == [e EXCEPT !.env = previous_env]

\* the Evm when the call returns r
Return(e, pc, r) == [e EXCEPT !.pc = pc, !.result = Some(r)]

\* mutant: the genesis block with a zero root goes on to the contract call
PrecheckGenesisCalls(cancun_active, block_number, parent_beacon_block_root) ==
    IF ~cancun_active THEN "noop"
    ELSE IF parent_beacon_block_root = None THEN "missing_root"
    ELSE IF block_number = 0 /\ parent_beacon_block_root[1] # ZeroRoot
    THEN "genesis_root_not_zero"
    ELSE "call"

\* mutant: the genesis check comes before the check for an absent root
PrecheckGenesisFirst(cancun_active, block_number, parent_beacon_block_root) ==
    IF ~cancun_active THEN "noop"
    ELSE IF block_number = 0
    THEN IF parent_beacon_block_root \notin {None, Some(ZeroRoot)}
         THEN "genesis_root_not_zero" ELSE "noop"
    ELSE IF parent_beacon_block_root = None THEN "missing_root"
    ELSE "call"

\* the checks of apply_beacon_root_contract_call before it touches the Evm
Precheck(cancun_active, block_number, parent_beacon_block_root) ==
    IF ~cancun_active THEN "noop"
    ELSE IF parent_beacon_block_root = None THEN "missing_root"
    ELSE IF block_number = 0
    THEN IF parent_beacon_block_root[1] # ZeroRoot
         THEN "genesis_root_not_zero" ELSE "noop"
    ELSE "call"

\* apply_beacon_root_contract_call on the Evm e, where outcome is what
\* evm.transact() returns if it is called
apply_beacon_root_contract_call(e, cancun_active, block_number, parent_beacon_block_root, outcome) ==
    LET check == Precheck(cancun_active, block_number, parent_beacon_block_root)
    IN IF check = "noop" THEN Return(e, "post_block", CallOk(<<>>))
       ELSE IF check = "missing_root"
       THEN Return(e, "post_block", CallErr("MissingParentBeaconBlockRoot", None, ""))
       ELSE IF check = "genesis_root_not_zero"
       THEN Return(e, "post_block",
                   CallErr("CancunGenesisParentBeaconBlockRootNotZero",
                           parent_beacon_block_root, ""))
       ELSE LET previous_env == e.env
                filled == [e EXCEPT !.env = fill_tx_env_system_contract_call(
                               @, SYSTEM_ADDRESS, BEACON_ROOTS_ADDRESS,
                               <<parent_beacon_block_root[1]>>)]
                ran == Transacted(filled, outcome)
            IN IF outcome.kind = "err"
               THEN Return(RestoreEnv(ran, previous_env), "post_block",
                           CallErr("BeaconRootContractCall",
                                   parent_beacon_block_root, outcome.message))
               ELSE LET state == Cleanup(outcome.state, ran.env.block.coinbase)
                    IN Return(RestoreEnv(Committed(ran, state), previous_env),
                              "post_block", CallOk(<<>>))

\* data.get_u64(): eight bytes, most significant first, kept as the four
\* 16-bit digits of the u64, most significant first
get_u64(bytes) == [i \in 1..4 |-> bytes[2 * i - 1] * 256 + bytes[2 * i]]

\* mutant: a trailing partial request is dropped
RECURSIVE ParseDropsTail(_, _)
ParseDropsTail(data, withdrawal_requests) ==
    IF Len(data) < WITHDRAWAL_REQUEST_SIZE THEN CallOk(withdrawal_requests)
    ELSE ParseDropsTail(
             SubSeq(data, WITHDRAWAL_REQUEST_SIZE + 1, Len(data)),
             Append(withdrawal_requests,
                    [source_address |-> SubSeq(data, 1, 20),
                     validator_pubkey |-> SubSeq(data, 21, 68),
                     amount |-> get_u64(SubSeq(data, 69, 76))]))

\* the loop "while data.has_remaining()"
RECURSIVE ParseWithdrawalRequests(_, _)
ParseWithdrawalRequests(data, withdrawal_requests) ==
    IF data = <<>> THEN CallOk(withdrawal_requests)
    ELSE IF Len(data) < WITHDRAWAL_REQUEST_SIZE
    THEN CallErr("WithdrawalRequestsContractCall", None,
                 "invalid withdrawal request length")
    ELSE ParseWithdrawalRequests(
             SubSeq(data, WITHDRAWAL_REQUEST_SIZE + 1, Len(data)),
             Append(withdrawal_requests,
                    [source_address |-> SubSeq(data, 1, 20),
                     validator_pubkey |-> SubSeq(data, 21, 68),
                     amount |-> get_u64(SubSeq(data, 69, 76))]))

\* mutant: the output of a reverted call is parsed like that of a success
ResultDataOfRevert(result) ==
    IF result.kind \in {"Success", "Revert"} THEN CallOk(result.output)
    ELSE CallErr("WithdrawalRequestsContractCall", None, "execution halted")

\* "let mut data = match result": the output of a success, an error otherwise
ResultData(result) ==
    IF result.kind = "Success" THEN CallOk(result.output)
    ELSE IF result.kind = "Revert"
    THEN CallErr("WithdrawalRequestsContractCall", None, "execution reverted")
    ELSE CallErr("WithdrawalRequestsContractCall", None, "execution halted")

\* apply_withdrawal_requests_contract_call on the Evm e, where outcome is what
\* evm.transact() returns
apply_withdrawal_requests_contract_call(e, outcome) ==
    LET previous_env == e.env
        filled == [e EXCEPT !.env = fill_tx_env_system_contract_call(
                       @, SYSTEM_ADDRESS, WITHDRAWAL_REQUEST_PREDEPLOY_ADDRESS, <<>>)]
        ran == Transacted(filled, outcome)
    IN IF outcome.kind = "err"
       THEN Return(RestoreEnv(ran, previous_env), "done",
                   CallErr("WithdrawalRequestsContractCall", None, "execution failed"))
       ELSE LET state == Cleanup(outcome.state, ran.env.block.coinbase)
                restored == RestoreEnv(Committed(ran, state), previous_env)
                data == ResultData(outcome.result)
            IN IF ~data.ok THEN Return(restored, "done", data)
               ELSE Return(restored, "done",
                           ParseWithdrawalRequests(data.value, <<>>))

\* the bytes the withdrawal contract writes: position i of every output
OutputByte(i) == (37 * i + 11) % 256

\* the lengths of the outputs: whole requests, and one byte more or less
OutputLengths ==
    {WITHDRAWAL_REQUEST_SIZE * k + d : k \in 0..MaxRequests, d \in {0, 1, 75}}

Outputs == {[i \in 1..len |-> OutputByte(i)] : len \in OutputLengths}

\* ExecutionResult
ExecutionResults ==
    {[kind |-> "Success", output |-> output] : output \in Outputs}
        \cup {[kind |-> "Revert", output |-> <<>>], [kind |-> "Halt", output |-> <<>>]}

\* the state diffs of the n-th transaction of the Evm: the touched accounts
\* take the value n
StateDiffs(n) ==
    {[a \in touched |-> n] : touched \in SUBSET ({SYSTEM_ADDRESS} \cup Accounts)}

\* what evm.transact() can return on the Evm e: an EVMError, or a
\* ResultAndState
TransactOutcomes(e) ==
    {[kind |-> "err", message |-> "database", result |-> [kind |-> "Halt", output |-> <<>>],
      state |-> <<>>]}
        \cup {[kind |-> "ok", message |-> "", result |-> result, state |-> state] :
                 result \in ExecutionResults,
                 state \in StateDiffs(Len(e.transacts) + 1)}

\* no system call was made yet
NoCall == [name |-> "none", cancun_active |-> FALSE, prague_active |-> FALSE,
           block_number |-> 0,
           parent_beacon_block_root |-> None, outcome |-> "none", output |-> <<>>,
           env |-> <<>>, db |-> <<>>, transacts |-> 0, commits |-> 0]

\* history: the latest call, its arguments, and the Evm it was made on
Call(e, name, cancun_active, prague_active, block_number, parent_beacon_block_root, outcome) ==
    [name |-> name, cancun_active |-> cancun_active,
     prague_active |-> prague_active, block_number |-> block_number,
     parent_beacon_block_root |-> parent_beacon_block_root,
     outcome |-> IF outcome.kind = "err" THEN "err" ELSE outcome.result.kind,
     output |-> IF outcome.kind = "err" THEN <<>> ELSE outcome.result.output,
     env |-> <<e.env>>, db |-> <<e.db>>,
     transacts |-> Len(e.transacts), commits |-> Len(e.commits)]

\* Evm::builder().with_db(db).with_env_with_handler_cfg(..).build()
NewEvm(coinbase) ==
    [pc |-> "pre_block",
     env |-> [tx |-> [caller |-> "alice", transact_to |-> "miner", data |-> <<>>],
              block |-> [coinbase |-> coinbase]],
     db |-> [a \in EvmAddresses |-> 0],
     result |-> None,
     call |-> NoCall,
     transacts |-> <<>>,   \* history: the tx env of every evm.transact()
     returned |-> <<>>,    \* history: the state diff every transact returned
     commits |-> <<>>]     \* history: the state diff of every db.commit

InitSystemCalls ==
    /\ \E coinbase \in Accounts : evm = NewEvm(coinbase)
    /\ build = Idle /\ overlay = Idle /\ reply = Idle /\ pending = Idle
    /\ best = Idle /\ fees = Idle /\ predicate = "any" /\ drained = <<>> /\ ordering = "tip" /\ mode = "system_calls"
    /\ channel = <<>> /\ yielded = <<>> /\ marked = {} /\ markedIndependent = {}
    /\ last = <<>> /\ arrived = FALSE /\ replayed = FALSE /\ everSkipBlobs = FALSE /\ sent = 0

\* the pre-block call, with the arguments the caller passes
ApplyBeaconRootContractCall ==
    /\ evm.pc = "pre_block"
    /\ \E cancun_active \in BOOLEAN, block_number \in 0..1,
          parent_beacon_block_root \in Roots, outcome \in TransactOutcomes(evm) :
          evm' = [apply_beacon_root_contract_call(
                      evm, cancun_active, block_number,
                      parent_beacon_block_root, outcome)
                  EXCEPT !.call = Call(evm, "beacon_root", cancun_active, FALSE,
                                       block_number, parent_beacon_block_root,
                                       outcome)]
    /\ UNCHANGED <<iterator, build, overlay, reply, pending>>

\* the post-block call, on a fresh Evm or after the pre-block call; whether
\* Prague is active at the timestamp of the block is not an argument of it
ApplyWithdrawalRequestsContractCall ==
    /\ evm.pc \in {"pre_block", "post_block"}
    /\ \E prague_active \in BOOLEAN, outcome \in TransactOutcomes(evm) :
          evm' = [apply_withdrawal_requests_contract_call(evm, outcome)
                  EXCEPT !.call = Call(evm, "withdrawal_requests", FALSE,
                                       prague_active, 0, None, outcome)]
    /\ UNCHANGED <<iterator, build, overlay, reply, pending>>

NextSystemCalls == ApplyBeaconRootContractCall \/ ApplyWithdrawalRequestsContractCall
\* the system calls of one block on one Evm
SpecSystemCalls == InitSystemCalls /\ [][NextSystemCalls]_vars

(***************************************************************************)
(* build_block from its first line: the pre-block steps, then the loop     *)
(***************************************************************************)
\* PendingBlockEnvOrigin, and origin.header().parent_beacon_block_root
Origins ==
    {[kind |-> kind, parent_beacon_block_root |-> root] :
        kind \in {"ActualPending", "DerivedFromLatest"}, root \in Roots}

is_actual_pending(origin) == origin.kind = "ActualPending"

\* PendingBlockEnv { cfg, block_env, origin }: whether Cancun is active at
\* block_env.timestamp, block_env.number, and the origin
PendingBlockEnvs ==
    {[cancun_active |-> cancun_active, block_number |-> block_number,
      origin |-> origin] :
        cancun_active \in BOOLEAN, block_number \in 0..1, origin \in Origins}

\* the locals of build_block before its pre-block steps
StartedBuild(limit, env) ==
    [NewBuild(limit) EXCEPT !.pc = "pre_block",
                            !.step = 1,
                            !.origin = env.origin,
                            !.cancun_active = env.cancun_active,
                            !.block_number = env.block_number]

\* build_block is at the pre-block statement name
AtStep(name) ==
    /\ build.pc = "pre_block"
    /\ PreBlockSteps[build.step] = name

\* the statement is done: on to the next one, or into the selection loop
Advance(bld) ==
    [bld EXCEPT !.step = @ + 1,
                !.pc = IF bld.step = Len(PreBlockSteps) THEN "loop" ELSE @]

\* what evm.transact() can return to the pre-block call, which looks at the
\* state of the result only
PreBlockOutcomes(e) == {o \in TransactOutcomes(e) : o.result.output = <<>>}

\* mutant: the call is made for every origin
PreBlockCallAlways(origin) == TRUE

\* "if origin.is_actual_pending()": whether build_block makes the pre-block
\* call
PreBlockCallMade(origin) == is_actual_pending(origin)

\* "let parent_beacon_block_root = if origin.is_actual_pending() { .. }":
\* pre_block_beacon_root_contract_call with the root of the origin's header;
\* its error ends the build as EthApiError::Internal
PreBlockBeaconRootContractCall ==
    /\ AtStep("beacon_root_contract_call")
    /\ IF PreBlockCallMade(build.origin)
       THEN \E outcome \in PreBlockOutcomes(evm) :
              LET e == apply_beacon_root_contract_call(
                           evm, build.cancun_active, build.block_number,
                           build.origin.parent_beacon_block_root, outcome)
                  called == [build EXCEPT
                                !.pre_block = Append(@, "beacon_root_contract_call")]
              IN /\ evm' = [e EXCEPT !.call = Call(evm, "beacon_root",
                                       build.cancun_active, FALSE,
                                       build.block_number,
                                       build.origin.parent_beacon_block_root,
                                       outcome)]
                 /\ build' = IF e.result[1].ok
                             THEN Advance([called EXCEPT
                                      !.parent_beacon_block_root =
                                          build.origin.parent_beacon_block_root])
                             ELSE [called EXCEPT
                                      !.pc = "failed",
                                      !.error = Some([kind |-> "Internal",
                                                      source |-> e.result[1].error])]
       ELSE /\ build' = Advance(build)
            /\ evm' = evm
    /\ UNCHANGED <<iterator, overlay, reply, pending>>

\* "pre_block_blockhashes_update(..)?": the update is applied, or its error
\* ends the build
PreBlockBlockhashesUpdate ==
    /\ AtStep("blockhashes_update")
    /\ \E ok \in BOOLEAN :
          build' = IF ok
                   THEN Advance([build EXCEPT
                                    !.pre_block = Append(@, "blockhashes_update")])
                   ELSE [build EXCEPT !.pc = "failed",
                                      !.error = Some([kind |-> "Internal",
                                                      source |-> "blockhashes"])]
    /\ UNCHANGED <<iterator, overlay, reply, evm, pending>>

InitBuildBlock ==
    /\ InitIterator("fees")
    /\ \E limit \in BlockGasLimits, env \in PendingBlockEnvs :
          build = StartedBuild(limit, env)
    /\ \E coinbase \in Accounts : evm = NewEvm(coinbase)
    /\ overlay = Idle
    /\ reply = Idle
    /\ pending = Idle

NextBuildBlock ==
    PreBlockBeaconRootContractCall \/ PreBlockBlockhashesUpdate \/ BuildBlockLoop
\* one build_block from the pending block env to the sealed block
SpecBuildBlock == InitBuildBlock /\ [][NextBuildBlock]_vars

(***************************************************************************)
(* local_pending_block: concurrent requests, the provider, and the cached  *)
(* pending block behind a tokio Mutex                                      *)
(***************************************************************************)
\* the clock stops here; it counts seconds
MaxTime == 3

\* Duration::from_secs(1)
TTL_SECS == 1

\* the tasks that call local_pending_block
Callers == {1, 2}

\* the headers the provider can report as latest: two siblings and a child
Heads == {[number |-> 1, hash |-> 11], [number |-> 1, hash |-> 12],
          [number |-> 2, hash |-> 21]}

\* the pending block the consensus layer supplies on top of a header
ActualPendingOn(header) ==
    [number |-> header.number + 1, parent_hash |-> header.hash, id |-> 0,
     hash |-> 100 + header.hash]

\* PendingBlockEnvOrigin::ActualPending: the header of the pending block
ActualPending(block) == [number |-> block.number, hash |-> block.hash]

\* PendingBlockEnvOrigin::DerivedFromLatest: the number of the child block
\* with the hash of the latest block
DerivedFromLatest(latest) == [number |-> latest.number + 1, hash |-> latest.hash]

\* the block build_block seals for env: header.number is block_env.number and
\* header.parent_hash is origin.build_target_hash(); id is the task that built
SealedBlock(env, id) ==
    [number |-> env.number, parent_hash |-> env.hash, id |-> id,
     hash |-> 100 * (id + 1) + env.hash]

\* EthResult<Option<SealedBlockWithSenders>>
ResultOk(block) == [ok |-> TRUE, block |-> block]
ResultErr == [ok |-> FALSE, block |-> None]

\* mutant: the parent hash is not compared
IsStillGoodByNumber(cache, env, now) ==
    /\ cache # None
    /\ env.number = cache[1].block.number
    /\ now <= cache[1].expires_at

\* "check if the block is still good"
IsStillGood(cache, env, now) ==
    /\ cache # None
    /\ env.number = cache[1].block.number
    /\ env.hash = cache[1].block.parent_hash
    /\ now <= cache[1].expires_at

\* mutant: the guard is dropped before the build is spawned
ReleasedForBuild(r) == 0

\* the holder of the mutex while build_block runs for r: the guard taken
\* before the check lives until local_pending_block returns
HeldForBuild(r) == r

\* mutant: the guard outlives the call
StillLocked(mutex, r) == mutex

\* the mutex when local_pending_block of r returns after the build: the guard
\* `lock` goes out of scope
Unlocked(mutex, r) == IF mutex = r THEN 0 ELSE mutex

\* mutant: a failed build clears the cache
PublishOrClear(cache, built, now) ==
    IF built = None THEN None
    ELSE Some([block |-> built[1], expires_at |-> now + TTL_SECS])

\* the cache after the build returned built: "*lock = Some(PendingBlock::new(..))"
\* after a block, nothing after an error
Publish(cache, built, now) ==
    IF built = None THEN cache
    ELSE Some([block |-> built[1], expires_at |-> now + TTL_SECS])

\* a task that is not inside local_pending_block
NoRequest == [pc |-> "idle", env |-> None, seen |-> None, after_failure |-> FALSE]

\* history: no call has returned yet
NoReturn == [caller |-> 0, path |-> "none", env |-> None, seen |-> None,
             result |-> None, after_failure |-> FALSE]

\* history: request req of task r returns result on the given path
Returns(r, req, path, result) ==
    [NoReturn EXCEPT !.caller = r, !.path = path, !.env = req.env,
                     !.seen = req.seen, !.after_failure = req.after_failure,
                     !.result = Some(result)]

InitPending ==
    /\ \E latest \in Heads :
          pending = [latest |-> latest,
                     actual |-> None,
                     cache |-> None,
                     published |-> 0, \* history: when the cache was written
                     mutex |-> 0,
                     now |-> 0,
                     failed |-> {},  \* history: envs whose build failed since
                                     \* the cache was last written
                     request |-> [r \in Callers |-> NoRequest],
                     returned |-> NoReturn] \* history: the return of a
                                            \* call, until its caller has it
    /\ build = Idle /\ overlay = Idle /\ reply = Idle /\ evm = Idle
    /\ best = Idle /\ fees = Idle /\ predicate = "any" /\ drained = <<>> /\ ordering = "tip" /\ mode = "pending"
    /\ channel = <<>> /\ yielded = <<>> /\ marked = {} /\ markedIndependent = {}
    /\ last = <<>> /\ arrived = FALSE /\ replayed = FALSE /\ everSkipBlobs = FALSE /\ sent = 0

\* only the pending-block state changes
PendingStep == UNCHANGED <<iterator, build, overlay, reply, evm>>

\* local_pending_block up to the lock: pending_block_env_and_cfg() fails, or
\* finds the actual pending block and returns it, or derives the env from
\* the latest header and goes on to the mutex
Start(r) ==
    /\ pending.returned = NoReturn
    /\ pending.request[r].pc = "idle"
    /\ \E provider_ok \in BOOLEAN :
          IF ~provider_ok
          THEN pending' = [pending EXCEPT
                  !.returned = Returns(r, NoRequest, "error", ResultErr)]
          ELSE IF pending.actual # None
          THEN pending' = [pending EXCEPT
                  !.returned = Returns(
                      r, [NoRequest EXCEPT !.env = Some(ActualPending(pending.actual[1]))],
                      "actual", ResultOk(pending.actual))]
          ELSE pending' = [pending EXCEPT
                  !.request[r] = [NoRequest EXCEPT
                      !.pc = "lock",
                      !.env = Some(DerivedFromLatest(pending.latest))]]
    /\ PendingStep

\* the mutex is acquired, the clock is read and the cache is checked: a block
\* that is still good is returned, which drops the guard; otherwise the build
\* is spawned
Lock(r) ==
    /\ pending.returned = NoReturn
    /\ pending.request[r].pc = "lock"
    /\ pending.mutex = 0
    /\ LET req == pending.request[r]
           env == req.env[1]
           now == pending.now
           looked == [req EXCEPT !.seen = Some([cache |-> pending.cache, now |-> now]),
                                 !.after_failure = env \in pending.failed]
       IN IF IsStillGood(pending.cache, env, now)
          THEN pending' = [pending EXCEPT
                  !.request[r] = NoRequest,
                  !.returned = Returns(r, looked, "cached",
                                       ResultOk(Some(pending.cache[1].block)))]
          ELSE pending' = [pending EXCEPT
                  !.mutex = HeldForBuild(r),
                  !.request[r] = [looked EXCEPT !.pc = "building"]]
    /\ PendingStep

\* spawn_blocking_io(build_block) completes: a block is published with the
\* time of publication and returned; an error is logged and None is returned
BuildBlock(r) ==
    /\ pending.returned = NoReturn
    /\ pending.request[r].pc = "building"
    /\ \E ok \in BOOLEAN :
          LET req == pending.request[r]
              built == IF ok THEN Some(SealedBlock(req.env[1], r)) ELSE None
              cache == Publish(pending.cache, built, pending.now)
          IN pending' = [pending EXCEPT
                 !.cache = cache,
                 !.published = IF ok THEN pending.now ELSE @,
                 !.mutex = Unlocked(@, r),
                 !.failed = IF ok THEN {} ELSE @ \cup {req.env[1]},
                 !.request[r] = NoRequest,
                 !.returned = Returns(r, req, IF ok THEN "built" ELSE "none",
                                      ResultOk(built))]
    /\ PendingStep

\* the caller takes the result of the call that returned
Taken ==
    /\ pending.returned # NoReturn
    /\ pending' = [pending EXCEPT !.returned = NoReturn]
    /\ PendingStep

\* a second passes
Tick ==
    /\ pending.returned = NoReturn
    /\ pending.now < MaxTime
    /\ pending' = [pending EXCEPT !.now = @ + 1]
    /\ PendingStep

\* the provider reports another latest header
NewHead(header) ==
    /\ pending.returned = NoReturn
    /\ header # pending.latest
    /\ pending' = [pending EXCEPT !.latest = header, !.actual = None]
    /\ PendingStep

\* the provider receives the pending block of the consensus layer
ActualPendingArrives ==
    /\ pending.returned = NoReturn
    /\ pending.actual = None
    /\ pending' = [pending EXCEPT !.actual = Some(ActualPendingOn(pending.latest))]
    /\ PendingStep

NextPending ==
    \/ \E r \in Callers : Start(r)
    \/ \E r \in Callers : Lock(r)
    \/ \E r \in Callers : BuildBlock(r)
    \/ Taken
    \/ Tick
    \/ \E header \in Heads : NewHead(header)
    \/ ActualPendingArrives
\* concurrent calls of local_pending_block while time and the chain move on
SpecPending == InitPending /\ [][NextPending]_vars

\* every transaction the consumer was handed, with its history entry
Entries == UNION {{yielded[s][i] : i \in DOMAIN yielded[s]} : s \in Senders}

\* the snapshot is frozen: no late arrival was received
Frozen == ~arrived

(***************************************************************************)
(* C1: with next and mark_invalid calls alone (no late arrival, no blob    *)
(* skipping), once mark_invalid(tx) was called no transaction of tx's      *)
(* sender with a greater nonce is returned by a later next.                *)
(***************************************************************************)
C1_NoDescendantAfterMarkInvalid ==
    (Frozen /\ ~everSkipBlobs) =>
        \A e \in Entries : \A m \in e.marked : e.tx.nonce <= m.nonce

(***************************************************************************)
(* C2: on a frozen snapshot a transaction marked invalid while it waits in *)
(* `independent`, and every later transaction of its sender, is never      *)
(* returned; if the pool holds one sender only and its first transaction   *)
(* was so marked, next returns None.                                       *)
(***************************************************************************)
C2_MarkedInIndependentNeverYielded ==
    Frozen =>
        /\ \A m \in markedIndependent :
              \A i \in DOMAIN yielded[m.sender] : yielded[m.sender][i].tx.nonce < m.nonce
        /\ \A s \in Senders :
              (/\ \A id \in DOMAIN best.all : id.sender = s
               /\ SnapshotTx(s, 0) \in markedIndependent
               /\ last # <<>>)
                  => last = <<None>>

\* the head of sender 1's run of three was marked while waiting, next was
\* called and returned None
C2_Witness ==
    /\ Frozen
    /\ SnapshotTx(1, 0) \in markedIndependent
    /\ DOMAIN best.all = {Id(SnapshotTx(1, n)) : n \in 0..2}
    /\ last = <<None>>

(***************************************************************************)
(* C3: on a frozen snapshot without blob skipping, a sender's returned     *)
(* transactions are its snapshot transactions with nonces 0, 1, 2, ... in  *)
(* this order, whatever was marked invalid in between.                     *)
(***************************************************************************)
C3_PerSenderContiguous ==
    (Frozen /\ ~everSkipBlobs) =>
        \A s \in Senders : \A i \in DOMAIN yielded[s] :
            yielded[s][i].tx = SnapshotTx(s, i - 1)

\* sender 1's run of three was returned in full while both senders were
\* being served and a transaction was marked invalid
C3_Witness ==
    /\ Frozen /\ ~everSkipBlobs
    /\ Len(yielded[1]) = 3
    /\ Len(yielded[2]) >= 1
    /\ marked # {}

(***************************************************************************)
(* C4: every transaction BestTransactionsWithFees::next returns pays at    *)
(* least the base fee and, when it carries a blob fee, at least the blob   *)
(* base fee.                                                               *)
(***************************************************************************)
C4_YieldedSatisfyFees ==
    \A e \in Entries :
        /\ MaxFeePerGas(e.tx) >= fees.base_fee
        /\ MaxFeePerBlobGas(e.tx) # None =>
              MaxFeePerBlobGas(e.tx)[1] >= fees.base_fee_per_blob_gas

\* a blob transaction was returned after a late arrival was received, and a
\* blob transaction with too low a blob fee was rejected
C4_Witness ==
    /\ arrived
    /\ \E e \in Entries : IsEip4844(e.tx)
    /\ \E id \in DOMAIN best.all :
          /\ Hash(best.all[id]) \in best.invalid
          /\ best.all[id] \notin marked
          /\ MaxFeePerGas(best.all[id]) >= fees.base_fee
          /\ ~best.skip_blobs /\ ~everSkipBlobs

\* gas used by the first n executed transactions
RECURSIVE SumGas(_, _)
SumGas(trace, n) == IF n = 0 THEN 0 ELSE SumGas(trace, n - 1) + trace[n]

\* the executed transactions of sender s before position i
EarlierOf(txs, s, i) == {j \in 1..(i - 1) : txs[j].sender = s}

(***************************************************************************)
(* C5: in every state of the selection loop and in the sealed header the   *)
(* gas used stays within the block gas limit and the blob gas within       *)
(* MAX_DATA_GAS_PER_BLOCK.                                                 *)
(***************************************************************************)
C5_GasWithinLimits ==
    /\ build.cumulative_gas_used <= build.block_gas_limit
    /\ build.sum_blob_gas_used <= MAX_DATA_GAS_PER_BLOCK
    /\ build.pc = "sealed" => build.header[1].gas_used <= build.header[1].gas_limit

\* a sealed block that is full in gas and in blob gas, built while
\* transactions were left out for the gas limit or the blob budget
C5_Witness ==
    /\ build.pc = "sealed"
    /\ build.header[1].gas_used = build.header[1].gas_limit
    /\ build.sum_blob_gas_used = MAX_DATA_GAS_PER_BLOCK
    /\ \E k \in build.skipped : k.why \in {"gas_limit", "blob_gas"}

(***************************************************************************)
(* C6: every included transaction ran when its sender's state nonce was    *)
(* its own nonce, so the nonce of an included transaction is the number of *)
(* transactions of its sender included before it.                          *)
(***************************************************************************)
C6_IncludedNoncesContiguous ==
    \A i \in DOMAIN build.executed_txs :
        LET tx == build.executed_txs[i]
        IN /\ build.exec_nonces[i] = tx.nonce
           /\ tx.nonce = Cardinality(EarlierOf(build.executed_txs, tx.sender, i))

\* sender 1 has two transactions in the block although a transaction of
\* sender 1 was pulled and left out
C6_Witness ==
    /\ Cardinality(EarlierOf(build.executed_txs, 1, Len(build.executed_txs) + 1)) >= 2
    /\ \E k \in build.skipped : k.tx.sender = 1 /\ k.why # "nonce_too_low"

(***************************************************************************)
(* C7: no transaction appears twice in the body of the block.              *)
(***************************************************************************)
C7_NoDuplicateInBlock ==
    \A i, j \in DOMAIN build.executed_txs :
        Hash(build.executed_txs[i]) = Hash(build.executed_txs[j]) => i = j

\* a transaction of the block was delivered again, pulled again and rejected
\* with NonceTooLow, and the block was sealed
C7_Witness ==
    /\ build.pc = "sealed"
    /\ \E i \in DOMAIN build.executed_txs :
          [tx |-> build.executed_txs[i], why |-> "nonce_too_low"] \in build.skipped

(***************************************************************************)
(* C8: receipts, executed_txs and senders have one length and one index;   *)
(* receipt i carries the gas used by the executed transactions up to i,    *)
(* and header.gas_used is the gas used by all of them.                     *)
(***************************************************************************)
C8_ReceiptsFollowExecution ==
    /\ Len(build.receipts) = Len(build.executed_txs)
    /\ Len(build.senders) = Len(build.executed_txs)
    /\ \A i \in DOMAIN build.executed_txs :
          /\ build.senders[i] = build.executed_txs[i].sender
          /\ build.receipts[i].tx_type = TxType(build.executed_txs[i])
          /\ build.receipts[i].cumulative_gas_used = SumGas(build.gas_trace, i)
          /\ i > 1 => build.receipts[i].cumulative_gas_used
                          >= build.receipts[i - 1].cumulative_gas_used
    /\ build.pc = "sealed" =>
          build.header[1].gas_used = SumGas(build.gas_trace, Len(build.gas_trace))

\* a sealed block of three transactions of both senders
C8_Witness ==
    /\ build.pc = "sealed"
    /\ Len(build.receipts) = 3
    /\ {build.senders[i] : i \in DOMAIN build.senders} = Senders

\* what in-memory block i records for the key of a single-key read:
\* <<definition>>, or None when the block does not define the key
Defines(op, key, block) ==
    CASE op = "block_hash" ->
            IF block.number = key THEN Some(Some(BlockHashOf(block))) ELSE None
      [] op = "basic_account" -> block.account[key]
      [] op = "storage" ->
            IF block.storage[key] # None THEN Some(block.storage[key]) ELSE None
      [] op = "bytecode_by_hash" ->
            IF block.bytecode[key] # None THEN Some(block.bytecode[key]) ELSE None

\* what the historical provider returns for the key of a single-key read
Historical(op, key) ==
    CASE op = "block_hash" -> HistBlockHash(overlay.historical, key)
      [] op = "basic_account" -> overlay.historical.basic_account[key]
      [] op = "storage" -> overlay.historical.storage[key]
      [] op = "bytecode_by_hash" -> overlay.historical.bytecode[key]

SingleKeyReads == {"block_hash", "basic_account", "storage", "bytecode_by_hash"}

\* the positions of the in-memory blocks that define the key just read
Defining ==
    {i \in DOMAIN overlay.in_memory :
        Defines(reply.op, reply.key, overlay.in_memory[i]) # None}

(***************************************************************************)
(* C9: a single-key read returns the definition of the newest in-memory    *)
(* block that defines the key, without asking the historical provider (a   *)
(* recorded deletion of an account reads as no account); when no in-memory *)
(* block defines the key it returns what the historical provider returns.  *)
(***************************************************************************)
C9_NewestDefinitionWins ==
    (reply.pc = "done" /\ reply.op \in SingleKeyReads) =>
        IF Defining # {}
        THEN LET newest == CHOOSE i \in Defining : \A j \in Defining : j <= i
             IN /\ reply.result =
                      Ok(Defines(reply.op, reply.key, overlay.in_memory[newest])[1])
                /\ ~reply.historical
        ELSE /\ reply.result = Historical(reply.op, reply.key)
             /\ reply.historical

\* an account that an older block changed, the newest block deleted and the
\* historical provider still holds reads as no account
C9_Witness ==
    /\ reply.pc = "done" /\ reply.op = "basic_account"
    /\ Len(overlay.in_memory) = 2
    /\ overlay.in_memory[1].account[reply.key] = Some(Some(1))
    /\ overlay.in_memory[2].account[reply.key] = Some(None)
    /\ overlay.historical.basic_account[reply.key] = Ok(Some(9))
    /\ reply.result = Ok(None)

\* the in-memory blocks whose number lies in [start, end), in list order
InRange(start, end) ==
    SelectSeq(overlay.in_memory, LAMBDA b : start <= b.number /\ b.number < end)

\* the hashes of a sequence of blocks
RECURSIVE HashesOf(_)
HashesOf(blocks) ==
    IF blocks = <<>> THEN <<>>
    ELSE <<BlockHashOf(Head(blocks))>> \o HashesOf(Tail(blocks))

(***************************************************************************)
(* C10: canonical_hashes_range(start, end) returns the historical hashes   *)
(* of [start, e) followed by the hashes of the in-memory blocks numbered   *)
(* in [start, end), oldest first; e is the number of the oldest such       *)
(* in-memory block, or end when there is none.                             *)
(***************************************************************************)
C10_RangeIsHistoricalThenInMemory ==
    (/\ reply.pc = "done" /\ reply.op = "canonical_hashes_range"
     /\ ~overlay.historical.err) =>
        LET start == reply.key[1]
            end == reply.key[2]
            hit == InRange(start, end)
            e == IF hit = <<>> THEN end ELSE Head(hit).number
        IN reply.result =
              Ok(HistCanonicalHashesRange(overlay.historical, start, e).val
                    \o HashesOf(hit))

\* a range answered with one historical hash followed by the hashes of two
\* in-memory blocks
C10_Witness ==
    /\ reply.pc = "done" /\ reply.op = "canonical_hashes_range"
    /\ ~reply.result.err
    /\ Len(reply.result.val) = 3
    /\ reply.result.val[1] < 200
    /\ reply.result.val[2] >= 200
    /\ Len(InRange(reply.key[1], reply.key[2])) = 2


(***************************************************************************)
(* System calls                                                            *)
(***************************************************************************)
\* the latest system call left the Evm as it found it: no transaction was
\* executed, nothing was committed, database and env are those before it
Untouched ==
    /\ Len(evm.transacts) = evm.call.transacts
    /\ Len(evm.commits) = evm.call.commits
    /\ evm.db = evm.call.db[1]
    /\ evm.env = evm.call.env[1]

\* C11: in both system calls every state diff committed to the database is
\* the diff the EVM returned without the entries of SYSTEM_ADDRESS and of the
\* coinbase of the block: these two are never committed, every other entry is
C11_CommittedDiffIsScrubbedDiff ==
    /\ Len(evm.commits) <= Len(evm.returned)
    /\ \A i \in DOMAIN evm.commits :
          /\ DOMAIN evm.commits[i] =
                (DOMAIN evm.returned[i]) \ {SYSTEM_ADDRESS, evm.env.block.coinbase}
          /\ \A a \in DOMAIN evm.commits[i] : evm.commits[i][a] = evm.returned[i][a]

\* both calls committed a diff whose returned form named the system address,
\* the coinbase and a third account
C11_Witness ==
    /\ evm.pc = "done"
    /\ Len(evm.commits) = 2
    /\ \A i \in 1..2 : DOMAIN evm.returned[i] = {SYSTEM_ADDRESS} \cup Accounts
    /\ evm.db[evm.env.block.coinbase] = 0
    /\ \E a \in Accounts : evm.db[a] = 2

\* C12: the beacon-root call returns success without executing a
\* transaction, without committing and with the env unchanged when Cancun is
\* not active (whatever the block number and the root), or when Cancun is
\* active, the block number is 0 and the root is the zero hash
C12_BeaconRootNoOp ==
    (/\ evm.pc = "post_block"
     /\ \/ ~evm.call.cancun_active
        \/ /\ evm.call.block_number = 0
           /\ evm.call.parent_beacon_block_root = Some(ZeroRoot))
        => /\ evm.result = Some(CallOk(<<>>))
           /\ Untouched

\* the genesis block with a zero root under Cancun was a no-op
C12_Witness ==
    /\ evm.pc = "post_block"
    /\ evm.call.cancun_active
    /\ evm.call.block_number = 0
    /\ evm.call.parent_beacon_block_root = Some(ZeroRoot)
    /\ evm.result = Some(CallOk(<<>>))

\* C13: under Cancun the beacon-root call fails with
\* MissingParentBeaconBlockRoot when the root is absent, also for block 0, and
\* with the genesis error when the block number is 0 and the root is present
\* and not zero; no transaction is executed, database and env are unchanged
C13_BeaconRootRejects ==
    (evm.pc = "post_block" /\ evm.call.cancun_active)
        => /\ evm.call.parent_beacon_block_root = None
                => /\ evm.result = Some(CallErr("MissingParentBeaconBlockRoot", None, ""))
                   /\ Untouched
           /\ (/\ evm.call.block_number = 0
               /\ evm.call.parent_beacon_block_root \notin {None, Some(ZeroRoot)})
                => /\ evm.result =
                         Some(CallErr("CancunGenesisParentBeaconBlockRootNotZero",
                                      evm.call.parent_beacon_block_root, ""))
                   /\ Untouched

\* the root was absent for block 0 and the call failed for the missing root
C13_Witness ==
    /\ evm.pc = "post_block"
    /\ evm.call.cancun_active
    /\ evm.call.block_number = 0
    /\ evm.call.parent_beacon_block_root = None
    /\ ~evm.result[1].ok
    /\ evm.result[1].error = "MissingParentBeaconBlockRoot"

\* C14: the withdrawal-requests call returns a WithdrawalRequestsContractCall
\* error, and no list of requests, when evm.transact fails or the execution
\* result is Revert or Halt
C14_WithdrawalCallFails ==
    (evm.pc = "done" /\ evm.call.outcome \in {"err", "Revert", "Halt"})
        => /\ ~evm.result[1].ok
           /\ evm.result[1].error = "WithdrawalRequestsContractCall"
           /\ evm.result[1].value = <<>>

\* a reverted call was turned into the error
C14_Witness ==
    /\ evm.pc = "done"
    /\ evm.call.outcome = "Revert"
    /\ evm.result[1].error = "WithdrawalRequestsContractCall"
    /\ evm.result[1].message = "execution reverted"

\* C15: a successful withdrawal-requests call with an output of L bytes
\* returns L/76 requests in output order when 76 divides L, request i made of
\* bytes [76i, 76i+20) as source address, the next 48 as validator pubkey
\* and the last 8 as big-endian amount; otherwise it fails with 'invalid
\* withdrawal request length'
C15_OutputParsedInFrames ==
    (evm.pc = "done" /\ evm.call.outcome = "Success")
        => LET out == evm.call.output
               r == evm.result[1]
           IN IF Len(out) % 76 = 0
              THEN /\ r.ok
                   /\ Len(r.value) = Len(out) \div 76
                   /\ \A i \in 0..(Len(out) \div 76 - 1) :
                        /\ r.value[i + 1].source_address =
                              [j \in 1..20 |-> out[76 * i + j]]
                        /\ r.value[i + 1].validator_pubkey =
                              [j \in 1..48 |-> out[76 * i + 20 + j]]
                        /\ r.value[i + 1].amount =
                              [j \in 1..4 |-> out[76 * i + 67 + 2 * j] * 256
                                                + out[76 * i + 68 + 2 * j]]
              ELSE /\ ~r.ok
                   /\ r.error = "WithdrawalRequestsContractCall"
                   /\ r.message = "invalid withdrawal request length"

\* an output of two whole requests was parsed into two requests
C15_Witness ==
    /\ evm.pc = "done"
    /\ evm.call.outcome = "Success"
    /\ Len(evm.call.output) = 2 * 76
    /\ evm.result[1].ok
    /\ Len(evm.result[1].value) = 2
    /\ evm.result[1].value[1] # evm.result[1].value[2]

(***************************************************************************)
(* local_pending_block                                                     *)
(***************************************************************************)
\* the cache entry holds a block for env that has not expired at time now
GoodFor(cache, env, now) ==
    /\ cache # None
    /\ cache[1].block.number = env[1].number
    /\ cache[1].block.parent_hash = env[1].hash
    /\ now <= cache[1].expires_at

\* the cache and the clock as the call that returned found them: at its
\* check under the mutex, or as they are when it never took the mutex
Found ==
    IF pending.returned.seen # None THEN pending.returned.seen[1]
    ELSE [cache |-> pending.cache, now |-> pending.now]

\* the call that returned handed out the block of the cache
GaveCached ==
    /\ pending.returned.seen # None
    /\ pending.returned.seen[1].cache # None
    /\ pending.returned.result[1] =
          ResultOk(Some(pending.returned.seen[1].cache[1].block))
    /\ pending.returned.path = "cached"

\* C16: local_pending_block returns the cached block without building iff
\* the cache holds a block with the number of the pending env and the hash of
\* the origin header as parent that has not expired; an entry expires one
\* second after its publication, so it is never reused later than that
C16_CachedIffStillGood ==
    /\ (pending.returned # NoReturn /\ pending.returned.env # None)
          => (GaveCached <=> GoodFor(Found.cache, pending.returned.env, Found.now))
    /\ pending.cache # None => pending.cache[1].expires_at = pending.published + 1
    /\ (pending.returned # NoReturn /\ GaveCached)
          => pending.returned.seen[1].now <= pending.published + 1

\* a block was reused exactly one second after it was published, by a task
\* that did not build it
C16_Witness ==
    /\ GaveCached
    /\ pending.returned.seen[1].now = pending.published + 1
    /\ pending.returned.result[1].block[1].id # pending.returned.caller

\* C17 as stated: the mutex is not held while build_block runs, so another
\* request can take it during a build
C17_MutexFreeDuringBuild ==
    \A r \in Callers : pending.request[r].pc = "building" => pending.mutex = 0

\* C17 amended: the mutex is taken before the cache is read and held until
\* the call returns, through the build and the publication; while a build
\* runs its task holds the mutex and no other task is past the lock
C17_MutexHeldThroughBuild ==
    /\ \A r \in Callers : pending.request[r].pc = "building" => pending.mutex = r
    /\ pending.mutex # 0 => pending.request[pending.mutex].pc = "building"
    /\ Cardinality({r \in Callers : pending.request[r].pc = "building"}) <= 1

\* a task builds while the other waits for the mutex
C17_Witness ==
    \E r, w \in Callers :
        /\ pending.request[r].pc = "building"
        /\ pending.mutex = r
        /\ pending.request[w].pc = "lock"

\* the ways a call returns a block or None
GaveActual ==
    /\ pending.returned.seen = None
    /\ pending.returned.result[1].ok
    /\ pending.returned.result[1].block # None
    /\ pending.returned.result[1].block[1].id = 0

GaveBuilt ==
    /\ pending.returned.seen # None
    /\ ~GoodFor(Found.cache, pending.returned.env, Found.now)
    /\ pending.returned.result[1] =
          ResultOk(Some(SealedBlock(pending.returned.env[1], pending.returned.caller)))
    /\ pending.cache # None
    /\ Some(pending.cache[1].block) = pending.returned.result[1].block

GaveNone ==
    /\ pending.returned.seen # None
    /\ ~GoodFor(Found.cache, pending.returned.env, Found.now)
    /\ pending.returned.result[1] = ResultOk(None)
    /\ pending.cache = pending.returned.seen[1].cache

GaveError ==
    /\ pending.returned.seen = None
    /\ ~pending.returned.result[1].ok
    /\ pending.returned.result[1].block = None

\* a call that finds the cache as a failed build for its env left it builds
NoReuseAfterFailure ==
    pending.returned.after_failure => ~GaveCached

\* C18 as stated: every result is the actual pending block, a cached block
\* that passed the check, the block of a build that is then published, or
\* None after a failed build, which leaves the cache as it was
C18_ResultIsBlockOrNone ==
    pending.returned # NoReturn
        => /\ GaveActual \/ (GaveCached /\ GoodFor(Found.cache, pending.returned.env, Found.now))
              \/ GaveBuilt \/ GaveNone
           /\ NoReuseAfterFailure

\* C18 amended: besides these, a call whose pending_block_env_and_cfg fails
\* returns that error without locking
C18_ResultIsErrorBlockOrNone ==
    pending.returned # NoReturn
        => /\ GaveError \/ GaveActual
              \/ (GaveCached /\ GoodFor(Found.cache, pending.returned.env, Found.now))
              \/ GaveBuilt \/ GaveNone
           /\ NoReuseAfterFailure

\* a build failed over a cached block and left it, after an earlier build
\* for the same env had failed too
C18_Witness ==
    /\ GaveNone
    /\ pending.returned.path = "none"
    /\ pending.cache # None
    /\ pending.returned.after_failure

(***************************************************************************)
(* build_block: errors of the EVM and private transactions                 *)
(***************************************************************************)
\* the pulled transactions the EVM rejected with a Transaction error
RejectedByEvm ==
    {e \in build.skipped : e.why \in {"nonce_too_low", "invalid_transaction"}}

\* the executed transactions of sender s
ExecutedOf(s) ==
    {i \in DOMAIN build.executed_txs : build.executed_txs[i].sender = s}

\* C19: a Transaction error of the EVM never aborts the build: the
\* transaction is left out, nothing is committed and no receipt is made for
\* it, and the loop goes on; any other error of the EVM aborts build_block,
\* which returns no block
C19_OnlyFatalErrorsAbort ==
    /\ build.pc = "failed" <=> \E e \in build.skipped : e.why = "fatal"
    /\ build.pc = "failed" => build.header = None /\ build.body = None
    /\ \A e \in build.skipped :
          /\ e.why \in {"invalid_transaction", "fatal"}
                => \A i \in DOMAIN build.executed_txs : build.executed_txs[i] # e.tx
          /\ e.why = "nonce_too_low"
                => \A i \in DOMAIN build.executed_txs :
                      build.executed_txs[i] = e.tx
                          => build.exec_nonces[i] = e.tx.nonce
    /\ \A s \in Senders : build.db[s] = Cardinality(ExecutedOf(s))
    /\ Len(build.receipts) = Len(build.executed_txs)

\* the EVM rejected a transaction and the block was sealed with others
C19_Witness ==
    /\ build.pc = "sealed"
    /\ RejectedByEvm # {}
    /\ \E e \in RejectedByEvm :
          \E i \in DOMAIN build.executed_txs :
              build.executed_txs[i].sender = e.tx.sender
    /\ Len(build.receipts) < Len(build.executed_txs) + Cardinality(build.skipped)

\* C20: a transaction of private origin is never executed and never in the
\* block: it is marked invalid on the iterator and the loop goes on
C20_PrivateNeverIncluded ==
    /\ \A i \in DOMAIN build.executed_txs : ~IsPrivate(build.executed_txs[i])
    /\ build.body # None => \A i \in DOMAIN build.body[1] : ~IsPrivate(build.body[1][i])
    /\ \A e \in build.skipped :
          IsPrivate(e.tx) => /\ e.why \in {"gas_limit", "private"}
                             /\ Hash(e.tx) \in best.invalid

\* a private transaction was pulled with room in the block and left out, and
\* the block was sealed with other transactions
C20_Witness ==
    /\ build.pc = "sealed"
    /\ \E e \in build.skipped : e.why = "private" /\ IsPrivate(e.tx)
    /\ build.body # None /\ Len(build.body[1]) >= 2

(***************************************************************************)
(* System calls: the env and the Prague fork                               *)
(***************************************************************************)
\* the latest system call ran a transaction, so it had replaced the tx env
Replaced == Len(evm.transacts) > evm.call.transacts

\* C26: on every return path of a system call that replaced the tx env by
\* the env of the system call (transact error, success, and for the
\* withdrawal-requests call also Revert, Halt and malformed output) the env
\* of the Evm after the call is the env before it
C26_EnvRestored ==
    (evm.call.name # "none" /\ Replaced)
        => /\ evm.env = evm.call.env[1]
           /\ evm.transacts[Len(evm.transacts)].caller = SYSTEM_ADDRESS
           /\ evm.transacts[Len(evm.transacts)] # evm.env.tx

\* the withdrawal-requests call failed on a malformed output and the env is
\* that of the caller again
C26_Witness ==
    /\ evm.pc = "done"
    /\ Replaced
    /\ evm.call.outcome = "Success"
    /\ ~evm.result[1].ok
    /\ evm.result[1].message = "invalid withdrawal request length"
    /\ evm.env.tx.caller = "alice"

\* C28 as stated: when Prague is not active the withdrawal-requests call is a
\* no-op that returns an empty vector: no transaction is executed and no state
\* is committed
C28_NoOpBeforePrague ==
    (evm.pc = "done" /\ ~evm.call.prague_active)
        => /\ evm.result = Some(CallOk(<<>>))
           /\ Len(evm.transacts) = evm.call.transacts
           /\ Len(evm.commits) = evm.call.commits
           /\ evm.db = evm.call.db[1]

(***************************************************************************)
(* C27: when a read of the overlay reaches the historical provider and     *)
(* that provider returns an error, the overlay returns that error and no   *)
(* value; canonical_hashes_range returns the error of the historical       *)
(* provider even when blocks in memory matched the range.                  *)
(***************************************************************************)
C27_HistoricalErrorPropagates ==
    /\ (/\ reply.pc = "done" /\ reply.op \in SingleKeyReads
        /\ reply.historical
        /\ Historical(reply.op, reply.key).err)
            => /\ reply.result = Historical(reply.op, reply.key)
               /\ reply.result.err /\ reply.result.val = None
    /\ (/\ reply.pc = "done" /\ reply.op = "canonical_hashes_range"
        /\ overlay.historical.err)
            => /\ reply.result =
                     HistCanonicalHashesRange(overlay.historical, reply.key[1],
                                              reply.key[2])
               /\ reply.result.err /\ reply.result.val = None

\* a range that two blocks in memory match is answered with the error of the
\* historical provider
C27_Witness ==
    /\ reply.pc = "done" /\ reply.op = "canonical_hashes_range"
    /\ overlay.historical.err
    /\ Len(InRange(reply.key[1], reply.key[2])) = 2
    /\ reply.result = Err

\* a storage read that no block in memory answers fails with the error of
\* the historical provider
C27_WitnessStorage ==
    /\ reply.pc = "done" /\ reply.op = "storage"
    /\ Len(overlay.in_memory) = 2
    /\ reply.historical
    /\ reply.result = Err

(***************************************************************************)
(* The iterators: what a next call returns                                 *)
(***************************************************************************)
\* the transaction a step adds to the history of sender s
NewlyYielded(s) == yielded'[s][Len(yielded'[s])].tx

\* a step in which a next call of the consumer returned a transaction of s
Yields(s) == Len(yielded'[s]) > Len(yielded[s])

\* C22: while skip_blobs is true no next call returns an EIP-4844
\* transaction, whether the consumer drives BestTransactions itself,
\* BestTransactionsWithFees or BestTransactionFilter (set_skip_blobs of a
\* wrapper sets the flag of the inner iterator)
C22_NoBlobWhileSkipping ==
    [][\A s \in Senders :
          (best.skip_blobs /\ Yields(s)) => ~IsEip4844(NewlyYielded(s))]_vars

\* a filter with skip_blobs set returned a plain transaction after it had
\* dropped a blob transaction that its predicate accepts
C22_Witness ==
    /\ mode = "filter"
    /\ best.skip_blobs
    /\ last # <<>> /\ last[1] # None /\ ~IsEip4844(last[1][1])
    /\ \E id \in DOMAIN best.all :
          /\ IsEip4844(best.all[id])
          /\ Holds(predicate, best.all[id])
          /\ Hash(best.all[id]) \in best.invalid
          /\ best.all[id] \notin marked
          /\ best.all[id].sender = last[1][1].sender
          /\ best.all[id].nonce < last[1][1].nonce

\* a step of SpecBest that is the consumer's next call (or leaves all as is)
IsNextCall ==
    /\ marked' = marked
    /\ sent' = sent
    /\ best'.skip_blobs = best.skip_blobs
    /\ best'.new_transaction_receiver = best.new_transaction_receiver

\* C23: the transaction BestTransactions::next returns was in `independent`
\* when it was popped, after the late arrivals were drained, and nothing
\* that was in `independent` then has a strictly greater priority; next
\* returns None only when `independent` is empty after draining
C23_ReturnsGreatestIndependent ==
    [][IsNextCall =>
          LET r == BestNext(ordering, best, channel)
              afterDrain == AddNewTransactions(best, channel)
          IN /\ best' = r.best /\ last' = <<r.item>>
             /\ r.item # None =>
                   /\ r.item[1] \in r.from
                   /\ \A t \in r.from :
                         ~(Priority(ordering, t) > Priority(ordering, r.item[1]))
                   /\ (best.invalid = {} /\ ~best.skip_blobs)
                         => r.from = afterDrain.independent
             /\ r.item = None => best'.independent = {}
             /\ (r.item = None /\ best.invalid = {} /\ ~best.skip_blobs)
                   => afterDrain.independent = {}]_vars

\* next returned a transaction after a late arrival was afterDrain, and a
\* transaction of the other sender with a lower priority still waits
C23_Witness ==
    /\ mode = "best"
    /\ arrived
    /\ last # <<>> /\ last[1] # None
    /\ \E t \in best.independent :
          /\ t.sender # last[1][1].sender
          /\ Priority(ordering, last[1][1]) > Priority(ordering, t)

\* C24: the `invalid` set only grows, and a next call never returns a
\* transaction whose hash is in it, also after set_skip_blobs(false) and
\* when the transaction is delivered again as a late arrival
C24_InvalidIsSticky ==
    [][/\ best.invalid \subseteq best'.invalid
       /\ \A s \in Senders :
             Yields(s) => /\ Hash(NewlyYielded(s)) \notin best.invalid
                          /\ Hash(NewlyYielded(s)) \notin best'.invalid]_vars

\* both transactions of the pool are invalid, one marked by the consumer and
\* one skipped as a blob; one of them was delivered again, skip_blobs was
\* reset, and next returned None
C24_Witness ==
    /\ DOMAIN best.all = {Id(SnapshotTx(1, 0)), Id(SnapshotTx(2, 0))}
    /\ \A id \in DOMAIN best.all : best.all[id].variant = 0
    /\ best.invalid = {Hash(SnapshotTx(1, 0)), Hash(SnapshotTx(2, 0))}
    /\ marked = {SnapshotTx(1, 0)}
    /\ everSkipBlobs /\ ~best.skip_blobs
    /\ arrived /\ channel = <<>>
    /\ last = <<None>>
    /\ \A s \in Senders : yielded[s] = <<>>

\* the blob transactions that next dropped because skip_blobs was set
SkippedBlobs ==
    {tx \in Universe : IsEip4844(tx) /\ Hash(tx) \in best.invalid /\ tx \notin marked}

\* C29 as stated: after next dropped a blob transaction of sender S with
\* nonce n because skip_blobs was set, no next call returns a transaction of
\* S with a nonce greater than n
C29_NoDependentOfSkippedBlob ==
    [][\A s \in Senders :
          Yields(s) => \A u \in SkippedBlobs' :
                          u.sender = s => NewlyYielded(s).nonce <= u.nonce]_vars

\* the transactions the wrapper rejected for their fees (skip_blobs was never
\* set, so the inner iterator rejected nothing by itself)
FeeRejected ==
    {tx \in Universe :
        /\ ~everSkipBlobs
        /\ Hash(tx) \in best.invalid /\ tx \notin marked
        /\ ~SatisfiesFees(fees, tx)}

\* C30 as stated: after BestTransactionsWithFees rejected a transaction of
\* sender S with nonce n for its fees, the wrapper returns no transaction of
\* S with a nonce greater than n
C30_NoDependentOfFeeRejected ==
    [][\A s \in Senders :
          Yields(s) => \A u \in FeeRejected' :
                          u.sender = s => NewlyYielded(s).nonce <= u.nonce]_vars

(***************************************************************************)
(* Late arrivals                                                           *)
(***************************************************************************)
\* a step in which the consumer's next call finds the receiver in place
LateStep == mode = "late" /\ IsNextCall /\ best.new_transaction_receiver

\* the late arrivals buffered on the channel when next is called
Late == {m \in {channel[i] : i \in DOMAIN channel} : m.sender \in Senders}

\* the predecessor id of m is absent from `all`
Orphan(m) ==
    IF m.nonce = 0 THEN TRUE
    ELSE [sender |-> m.sender, nonce |-> m.nonce - 1] \notin DOMAIN best.all

\* `independent` once the late arrivals are in
Expected == best.independent \cup {m \in Late : Orphan(m)}

\* the priority of m exceeds that of every other element of `independent`
Exceeds(m) ==
    \A t \in Expected \ {m} : Priority(ordering, m) > Priority(ordering, t)

\* every late arrival is in `all` when the call returns and `all` is otherwise
\* as it was; with nothing to drop, the call pops one element of Expected
InsertedBeforePop ==
    /\ channel' = <<>>
    /\ DOMAIN best'.all = DOMAIN best.all \cup {Id(m) : m \in Late}
    /\ \A m \in Late : best'.all[Id(m)] \in Late
    /\ \A id \in DOMAIN best.all \ {Id(m) : m \in Late} :
          best'.all[id] = best.all[id]
    /\ (best.invalid = {} /\ ~best.skip_blobs /\ Expected # {}) =>
          \E tx \in Expected :
             /\ last' = <<Some(tx)>>
             /\ best'.independent =
                   (Expected \ {tx}) \cup
                      (IF Unlocks(tx) \in DOMAIN best'.all
                       THEN {best'.all[Unlocks(tx)]} ELSE {})

\* what was yielded before the call is yielded still, in the same order
EarlierYieldsKept ==
    \A s \in Senders : yielded[s] = SubSeq(yielded'[s], 1, Len(yielded[s]))

\* C25 as stated: the late arrivals on the channel (a Lagged error included)
\* are inserted before the call pops, so a late arrival without predecessor
\* whose priority exceeds every element of `independent` is what the call
\* yields, and earlier yields are unchanged
C25_LateArrivalYielded ==
    [][LateStep =>
          /\ InsertedBeforePop
          /\ EarlierYieldsKept
          /\ \A m \in Late :
                (Orphan(m) /\ Exceeds(m)) => last' = <<Some(m)>>]_vars

\* C25, amended: ... is what the call yields unless its hash is in `invalid`
\* or it is a blob transaction while skip_blobs is set
C25_ValidLateArrivalYielded ==
    [][LateStep =>
          /\ InsertedBeforePop
          /\ EarlierYieldsKept
          /\ \A m \in Late :
                (/\ Orphan(m) /\ Exceeds(m)
                 /\ Hash(m) \notin best.invalid
                 /\ ~(best.skip_blobs /\ IsEip4844(m)))
                    => last' = <<Some(m)>>]_vars

\* the channel had lagged when next was called; the call inserted the
\* messages still buffered and yielded one of them, ahead of a transaction
\* of the snapshot that still waits
C25_Witness ==
    /\ mode = "late"
    /\ Len(drained) = ChannelCapacity + 1
    /\ IsLagged(drained[1])
    /\ \A i \in 2..Len(drained) : Id(drained[i]) \in DOMAIN best.all
    /\ \E i \in 2..Len(drained) :
          /\ last = <<Some(drained[i])>>
          /\ \E t \in best.independent :
                /\ t.variant = 0
                /\ Priority(ordering, drained[i]) > Priority(ordering, t)

(***************************************************************************)
(* System calls: what an error leaves in the database                      *)
(***************************************************************************)
\* C31 as stated: when the withdrawal-requests call returns an error (the
\* transact failed, the result is Revert or Halt, or the length of the output
\* is not a multiple of 76) nothing was committed and the database is as it
\* was before the call
C31_ErrorLeavesDatabase ==
    (/\ evm.pc = "done" /\ evm.call.name = "withdrawal_requests"
     /\ ~evm.result[1].ok)
        => /\ Len(evm.commits) = evm.call.commits
           /\ evm.db = evm.call.db[1]

\* C32: when evm.transact fails in the beacon-root call (Cancun active,
\* block number above 0, root R present) the call fails with
\* BeaconRootContractCall carrying R and the message of the error, and
\* nothing is committed to the database
C32_BeaconRootTransactError ==
    (/\ evm.pc = "post_block"
     /\ evm.call.cancun_active /\ evm.call.block_number > 0
     /\ evm.call.parent_beacon_block_root # None
     /\ evm.call.outcome = "err")
        => /\ evm.result =
                 Some([ok |-> FALSE, value |-> <<>>,
                       error |-> "BeaconRootContractCall",
                       root |-> evm.call.parent_beacon_block_root,
                       message |-> "database"])
           /\ Len(evm.transacts) = evm.call.transacts + 1
           /\ Len(evm.commits) = evm.call.commits
           /\ evm.db = evm.call.db[1]

\* the transaction of the beacon-root call for root 7 was run and failed
C32_Witness ==
    /\ evm.pc = "post_block"
    /\ evm.call.cancun_active /\ evm.call.block_number = 1
    /\ evm.call.parent_beacon_block_root = Some(7)
    /\ evm.call.outcome = "err"
    /\ Len(evm.transacts) = 1
    /\ evm.transacts[1].transact_to = BEACON_ROOTS_ADDRESS
    /\ evm.result[1].root = Some(7)

(***************************************************************************)
(* build_block: transactions the EVM rejects                               *)
(***************************************************************************)
\* the transactions a loop round leaves out because the EVM rejected them
NewlyRejected ==
    {k \in build'.skipped \ build.skipped :
        k.why \in {"nonce_too_low", "invalid_transaction"}}

\* C33: a pulled transaction whose execution fails with NonceTooLow is not
\* passed to mark_invalid, one that fails with another Transaction error
\* is; in both cases cumulative_gas_used, sum_blob_gas_used, receipts,
\* executed_txs and the database are as before the round
C33_NonceTooLowNotMarked ==
    [][\A k \in NewlyRejected :
          /\ k.why = "nonce_too_low" => Hash(k.tx) \notin best'.invalid
          /\ k.why = "invalid_transaction" => Hash(k.tx) \in best'.invalid
          /\ build'.cumulative_gas_used = build.cumulative_gas_used
          /\ build'.sum_blob_gas_used = build.sum_blob_gas_used
          /\ build'.receipts = build.receipts
          /\ build'.executed_txs = build.executed_txs
          /\ build'.db = build.db
          /\ build'.pc = "loop"]_vars

\* the block holds a transaction that was pulled a second time and rejected
\* for its nonce, which is not invalid, while a transaction that the EVM
\* rejected for another reason is
C33_Witness ==
    /\ \E k \in build.skipped :
          /\ k.why = "nonce_too_low"
          /\ Hash(k.tx) \notin best.invalid
          /\ \E i \in DOMAIN build.executed_txs : build.executed_txs[i] = k.tx
    /\ \E k \in build.skipped :
          k.why = "invalid_transaction" /\ Hash(k.tx) \in best.invalid

(***************************************************************************)
(* build_block: the pre-block steps                                        *)
(***************************************************************************)
\* the positions of a step in the history of the pre-block steps
StepsOf(name) == {i \in DOMAIN build.pre_block : build.pre_block[i] = name}

\* C34 as stated: the blockhash-window update is applied before the pre-block
\* beacon-root call is invoked, and both come before the first pool
\* transaction is executed
C34_BlockhashesBeforeBeaconRoot ==
    /\ \A i \in StepsOf("beacon_root_contract_call") :
          \E j \in StepsOf("blockhashes_update") : j < i
    /\ build.executed_txs # <<>> \/ build.skipped # {} =>
          /\ StepsOf("blockhashes_update") # {}
          /\ build.pc # "pre_block"

\* C34 amended: the pre-block beacon-root call, which is made for an actual
\* pending origin, comes before the blockhash-window update, and both come
\* before the first pool transaction is pulled and executed
C34_BeaconRootBeforeBlockhashes ==
    /\ \A i \in StepsOf("blockhashes_update") :
          /\ \A j \in StepsOf("beacon_root_contract_call") : j < i
          /\ is_actual_pending(build.origin) =>
                StepsOf("beacon_root_contract_call") # {}
    /\ build.executed_txs # <<>> \/ build.skipped # {} =>
          /\ StepsOf("blockhashes_update") # {}
          /\ build.pc # "pre_block"

\* a transaction was executed after both pre-block steps
C34_Witness ==
    /\ build.pre_block = <<"beacon_root_contract_call", "blockhashes_update">>
    /\ evm.transacts # <<>>
    /\ build.executed_txs # <<>>

\* C35 as stated: the contract of the beacon roots is called only if Cancun
\* is active and the root R is present; for an origin derived from the latest
\* block it is never called and the header has no parent beacon block root;
\* for an actual pending origin without a root the call is skipped and the
\* build does not fail with MissingParentBeaconBlockRoot; whenever the call
\* is made the header carries the root R passed to it
C35_CallOnlyWithRoot ==
    /\ evm.transacts # <<>> =>
          build.cancun_active /\ build.origin.parent_beacon_block_root # None
    /\ ~is_actual_pending(build.origin) =>
          /\ StepsOf("beacon_root_contract_call") = {}
          /\ evm.transacts = <<>>
          /\ build.pc = "sealed" => build.header[1].parent_beacon_block_root = None
    /\ (is_actual_pending(build.origin)
            /\ build.origin.parent_beacon_block_root = None) =>
          /\ evm.transacts = <<>>
          /\ build.error = None \/ build.error[1].source # "MissingParentBeaconBlockRoot"
    /\ (evm.transacts # <<>> /\ build.pc = "sealed") =>
          build.header[1].parent_beacon_block_root = evm.call.parent_beacon_block_root

\* C35 amended: build_block makes the pre-block call for an actual pending
\* origin only, and the contract of the beacon roots is called only if
\* Cancun is active and the root R is present; for an origin derived from the
\* latest block no call is made and the header has no parent beacon block
\* root; for an actual pending origin without a root the call is made with no
\* root: before Cancun it does nothing and the build goes on, with Cancun
\* active the build fails with MissingParentBeaconBlockRoot; the header of a
\* block sealed after the call carries the root R passed to it
C35_CallOnlyForActualPending ==
    /\ evm.transacts # <<>> =>
          /\ is_actual_pending(build.origin)
          /\ build.cancun_active /\ build.origin.parent_beacon_block_root # None
    /\ ~is_actual_pending(build.origin) =>
          /\ StepsOf("beacon_root_contract_call") = {}
          /\ evm.transacts = <<>> /\ evm.call = NoCall
          /\ build.pc = "sealed" => build.header[1].parent_beacon_block_root = None
    /\ (/\ is_actual_pending(build.origin)
        /\ build.origin.parent_beacon_block_root = None
        /\ StepsOf("beacon_root_contract_call") # {}) =>
          /\ evm.transacts = <<>>
          /\ evm.call.parent_beacon_block_root = None
          /\ IF build.cancun_active
             THEN /\ build.pc = "failed"
                  /\ build.error = Some([kind |-> "Internal",
                                         source |-> "MissingParentBeaconBlockRoot"])
                  /\ StepsOf("blockhashes_update") = {}
             ELSE build.error = None \/ build.error[1].source = "blockhashes"
    /\ (StepsOf("beacon_root_contract_call") # {} /\ build.pc = "sealed") =>
          build.header[1].parent_beacon_block_root = evm.call.parent_beacon_block_root

\* the build of an actual pending block without a root failed under Cancun
C35_Witness ==
    /\ is_actual_pending(build.origin)
    /\ build.origin.parent_beacon_block_root = None
    /\ build.cancun_active
    /\ build.pre_block = <<"beacon_root_contract_call">>
    /\ build.pc = "failed"

(***************************************************************************)
(* BestTransactions: `independent` on a frozen snapshot                    *)
(***************************************************************************)
\* the transactions next has returned so far
YieldedTxs ==
    UNION {{yielded[s][i].tx : i \in DOMAIN yielded[s]} : s \in Senders}

\* tx was popped and its successor unlocked: it was returned, or it is a blob
\* transaction that next skipped
PoppedAndUnlocked(tx) ==
    \/ tx \in YieldedTxs
    \/ IsEip4844(tx) /\ everSkipBlobs /\ Hash(tx) \in best.invalid

\* the transactions of `all` that next can no longer reach: they were
\* returned, or they or an ancestor of them were rejected
OutOfReach(tx) ==
    \/ tx \in YieldedTxs
    \/ \E i \in DOMAIN best.all :
          /\ i.sender = tx.sender /\ i.nonce <= tx.nonce
          /\ Hash(best.all[i]) \in best.invalid

\* C36: while no late arrival was received, `independent` holds at most one
\* transaction per sender, the one with the lowest nonce among those of the
\* sender not popped yet, and its elements are values of `all`; in a pool of
\* one sender it holds exactly one transaction until the run is exhausted
C36_IndependentLowestPerSender ==
    (mode = "best" /\ ~arrived) =>
        /\ \A t \in best.independent :
              /\ Id(t) \in DOMAIN best.all /\ best.all[Id(t)] = t
              /\ \A u \in best.independent : u.sender = t.sender => u = t
              /\ t \notin YieldedTxs
              /\ \A i \in DOMAIN best.all :
                    (i.sender = t.sender /\ i.nonce < t.nonce) =>
                        PoppedAndUnlocked(best.all[i])
        /\ (\A i \in DOMAIN best.all : i.sender = 1) =>
              \/ Cardinality(best.independent) = 1
              \/ /\ best.independent = {}
                 /\ \A i \in DOMAIN best.all : OutOfReach(best.all[i])

\* a pool of one sender with three transactions: the first was returned, the
\* second was marked invalid and popped, and the run is exhausted with the
\* third never in `independent`
C36_Witness ==
    /\ mode = "best" /\ ~arrived
    /\ \A i \in DOMAIN best.all : i.sender = 1
    /\ Cardinality(DOMAIN best.all) = 3
    /\ Len(yielded[1]) = 1
    /\ best.invalid # {}
    /\ best.independent = {}
    /\ last = <<None>>

(***************************************************************************)
(* BestTransactions: a transaction returned twice                          *)
(***************************************************************************)
\* the transactions returned for a sender have distinct hashes
DistinctHashes(s) ==
    \A i, j \in DOMAIN yielded[s] :
        i # j => Hash(yielded[s][i].tx) # Hash(yielded[s][j].tx)

\* C37 as stated: no transaction hash is returned twice, whatever next,
\* mark_invalid, set_skip_blobs and the late arrivals do, a late arrival with
\* an id already in `all` or already returned included
C37_NeverYieldsTwice == mode = "best" => \A s \in Senders : DistinctHashes(s)

\* C37 amended: no transaction hash is returned twice as long as every late
\* arrival received has an id that is new to `all`
C37_NewIdsNeverYieldTwice ==
    (mode = "best" /\ ~replayed) => \A s \in Senders : DistinctHashes(s)

\* a late arrival with a new id was returned after a transaction of the
\* snapshot
C37_Witness ==
    /\ mode = "best" /\ arrived /\ ~replayed
    /\ \E y \in YieldedTxs : y.variant = 1
    /\ \E y \in YieldedTxs : y.variant = 0

(***************************************************************************)
(* BestTransactions: the run on a detached channel                         *)
(***************************************************************************)
\* the number of transactions that repeated next calls on b return before
\* None when nothing is received any more and nothing is rejected
RECURSIVE RunLength(_, _)
RunLength(o, b) ==
    LET r == BestNext(o, [b EXCEPT !.skip_blobs = FALSE], <<>>)
    IN IF r.item = None THEN 0 ELSE 1 + RunLength(o, r.best)

\* no_updates() was called, or the pool has nothing more to deliver
Quiet ==
    \/ ~best.new_transaction_receiver
    \/ channel = <<>> /\ sent = MaxSends

Followers ==
    {best.all[i] : i \in {j \in DOMAIN best.all :
        /\ best.all[j].variant = 1
        /\ j.nonce > 0
        /\ [j EXCEPT !.nonce = @ - 1] \in DOMAIN best.all}}

\* the value of `all` under the predecessor id of tx
Predecessor(tx) == best.all[[sender |-> tx.sender, nonce |-> tx.nonce - 1]]

\* the step pops tx, which is not invalid, and unlocks its successor: tx is
\* returned, or it is a blob transaction that is skipped
PopsAndUnlocks(tx) ==
    \/ Yields(tx.sender) /\ Id(NewlyYielded(tx.sender)) = Id(tx)
    \/ /\ IsEip4844(tx) /\ best.skip_blobs
       /\ Hash(tx) \in best'.invalid \ best.invalid

\* the step brings tx into `independent`, or returns it from outside of it
Released(tx) ==
    /\ tx \notin best.independent
    /\ \/ tx \in best'.independent
       \/ Yields(tx.sender) /\ NewlyYielded(tx.sender) = tx

\* tx waits in `all` behind a predecessor that was returned already
Behind(tx) ==
    /\ tx \notin best.independent
    /\ tx \notin YieldedTxs
    /\ Predecessor(tx) \in YieldedTxs

Building == {r \in Callers : pending.request[r].pc = "building"}

\* the call that returned had found a cached block for its env that was
\* published less than a second before
FoundFresh ==
    /\ pending.returned # NoReturn
    /\ pending.returned.seen # None
    /\ pending.returned.seen[1].cache # None
    /\ LET cached == pending.returned.seen[1].cache[1]
           env == pending.returned.env[1]
       IN /\ cached.block.number = env.number
          /\ cached.block.parent_hash = env.hash
          /\ pending.returned.seen[1].now < cached.expires_at

\* C40: two requests never run build_block at the same time: while one
\* builds, the other waits at the lock or is outside the call; a request that
\* finds the block of a build for its env less than a second after its
\* publication returns that block without building; and the mutex is free
\* again whenever a call has returned
C40_OneBuildAtATime ==
    /\ Cardinality(Building) <= 1
    /\ \A r \in Building :
          /\ pending.mutex = r
          /\ \A w \in Callers \ {r} : pending.request[w].pc \in {"idle", "lock"}
    /\ FoundFresh =>
          /\ pending.returned.path = "cached"
          /\ pending.returned.result[1] =
                ResultOk(Some(pending.returned.seen[1].cache[1].block))
    /\ pending.returned # NoReturn =>
          /\ pending.mutex # pending.returned.caller
          /\ pending.request[pending.returned.caller].pc = "idle"
    /\ Building = {} => pending.mutex = 0

\* a request returned the block that the other task had built and published
\* within the same second, for the env both had derived
C40_Witness ==
    /\ FoundFresh
    /\ pending.returned.path = "cached"
    /\ pending.returned.result[1].block[1].id \notin {0, pending.returned.caller}
    /\ pending.returned.seen[1].now = pending.published
    /\ pending.mutex = 0

====
